---- MODULE Spec2Model ----
(***************************************************************************)
(* A model of the dock of Ax-Shell (src/modules/dock.py): the window-class *)
(* normalisation, the identifier index, the reconciliation of pinned       *)
(* records with live windows, the occlusion state machine and the pinned   *)
(* configuration store.                                                    *)
(*                                                                         *)
(* Strings are sequences of one-character strings, so that lower(),        *)
(* endswith(), substring containment and splitting are computed and not    *)
(* assumed.  Python's None is the distinguished value None.                *)
(***************************************************************************)
EXTENDS Integers, Sequences, FiniteSets, Bags, TLC

VARIABLES
    \* ---- the environment
    clients,            \* what the compositor answers to j/clients
    file,               \* the content of dock.json on disk
    data_always_show,   \* config.data.DOCK_ALWAYS_SHOW
    \* ---- DockConfig
    config,             \* DockConfig.config
    \* ---- Dock
    all_apps,           \* Dock._all_apps: get_desktop_applications(), a
                        \* catalog that does not change during a run
    integrated_mode, conn_ready, pinned, children,
    always_show, saved_always_show, hide_id, drag_in_progress,
    is_mouse_over_dock_area, prevent_occlusion, forced_occlusion,
    reveal_child,
    \* ---- GLib main loop
    timers,             \* pending one-shot hide timers (source ids)
    occlusion_sources,  \* recurring sources calling check_occlusion_state
    idle,               \* pending idle callbacks, in order
    drag_source,        \* GTK's drag in progress: Nothing, or the source widget
    \* ---- history (observation only)
    last,               \* the handler that ran last, if it is an observed one
    pre_force,          \* Just(always_show before the force) while the last
                        \* events are a force and the restore right after it
    first_force,        \* Just([always_show, again]) while the last events
                        \* are forces and the restore right after them:
                        \* always_show before the first of these forces, and
                        \* whether there was more than one
    \* ---- calls of pure functions
    call_arg, call_ret,
    \* ---- the other widgets of the shell
    debounced,          \* the sliders, small controls, mixer sliders and
                        \* bluetooth slots: the timer handle each one keeps,
                        \* its pending value and its live timeout sources
    threads,            \* the worker threads that are running
    ui,                 \* what the widgets fed by the workers show
    ui_idle,            \* the idle callbacks the workers posted, in order
    focused,            \* the address of Hyprland's active window, 0 for none
    activated,          \* the button clicked last and what its clicks ran
    toolbox,            \* the Toolbox: where it is in its life, and for each
                        \* status checker its timer_id and the live
                        \* recurring sources that call its _check
    slot,               \* a BluetoothDeviceSlot: its device, its caches, its
                        \* connect button and the box that holds it
    peer                \* the Dock of another monitor: the fields of Cur of
                        \* that instance, which shares dock.json, the
                        \* catalog and the compositor with this one

envVars  == <<clients, file, data_always_show>>
dockVars == <<config, all_apps, integrated_mode, conn_ready, pinned, children,
              always_show, saved_always_show, hide_id, drag_in_progress,
              is_mouse_over_dock_area, prevent_occlusion, forced_occlusion,
              reveal_child>>
loopVars == <<timers, occlusion_sources, idle, drag_source>>
histVars == <<last, pre_force, first_force>>
callVars == <<call_arg, call_ret>>
deskVars == <<focused, activated>>
sideVars == <<debounced, threads, ui, ui_idle, deskVars, toolbox, slot, peer>>
vars     == <<envVars, dockVars, loopVars, histVars, callVars, sideVars>>

----------------------------------------------------------------------------
\* Bounds of the model.

MaxSuffixes == 2
MaxTimers == 2
MaxIdle == 1
MaxClients == 1
MaxPinned == 2
MaxWindows == 2
MaxRecords == 2
MaxItems == 3
MaxThreads == 2
MaxPosted == 1
MaxActivations == 2
MaxTitle == 6
MaxApps == 2
MaxSources == 2

----------------------------------------------------------------------------
\* Strings.

None == <<"None">>

Truthy(s) == s # None /\ s # <<>>

LowerChar(c) ==
    CASE c = "A" -> "a" [] c = "B" -> "b" [] c = "E" -> "e"
      [] c = "F" -> "f" [] c = "O" -> "o" [] c = "X" -> "x"
      [] OTHER -> c

Lower(s) == [i \in 1..Len(s) |-> LowerChar(s[i])]

EndsWith(s, suffix) ==
    /\ Len(suffix) <= Len(s)
    /\ SubSeq(s, Len(s) - Len(suffix) + 1, Len(s)) = suffix

\* Python's `needle in hay` on strings.
Contains(hay, needle) ==
    \E i \in 0..(Len(hay) - Len(needle)) :
        SubSeq(hay, i + 1, i + Len(needle)) = needle

RECURSIVE Concat(_)
Concat(ss) == IF ss = <<>> THEN <<>> ELSE Head(ss) \o Concat(Tail(ss))

----------------------------------------------------------------------------
\* Window-class normalisation.

suffixes == << <<".", "b", "i", "n">>, <<".", "e", "x", "e">>, <<".", "s", "o">>,
               <<"-", "b", "i", "n">>, <<"-", "g", "t", "k">> >>

\* The loop body of _normalize_window_class: strip `suffix` if it is there.
StripSuffix(normalized, suffix) ==
    IF EndsWith(normalized, suffix)
    THEN SubSeq(normalized, 1, Len(normalized) - Len(suffix))
    ELSE normalized

RECURSIVE StripAll(_, _)
StripAll(normalized, rest) ==
    IF rest = <<>> THEN normalized
    ELSE StripAll(StripSuffix(normalized, Head(rest)), Tail(rest))

_normalize_window_class(class_name) ==
    IF ~Truthy(class_name) THEN <<>>
    ELSE StripAll(Lower(class_name), suffixes)

----------------------------------------------------------------------------
\* More of Python's str.

\* path.split('/')[-1]
RECURSIVE LastSegment(_)
LastSegment(s) ==
    IF \E i \in 1..Len(s) : s[i] = "/"
    THEN LastSegment(SubSeq(s, (CHOOSE i \in 1..Len(s) : s[i] = "/") + 1, Len(s)))
    ELSE s

\* s.strip(), with the space as the only blank of the alphabet
RECURSIVE Strip(_)
Strip(s) ==
    IF s # <<>> /\ Head(s) = " " THEN Strip(Tail(s))
    ELSE IF s # <<>> /\ s[Len(s)] = " " THEN Strip(SubSeq(s, 1, Len(s) - 1))
    ELSE s

\* s.split()[0] of a string that holds a non-blank character
FirstToken(s) ==
    LET t == Strip(s)
    IN  IF \E i \in 1..Len(t) : t[i] = " "
        THEN SubSeq(t, 1, (CHOOSE i \in 1..Len(t) :
                             t[i] = " " /\ \A j \in 1..(i - 1) : t[j] # " ") - 1)
        ELSE t

\* s.split(" - ")[0]
BeforeDash(s) ==
    LET sep  == <<" ", "-", " ">>
        hits == {i \in 1..(Len(s) - 2) : SubSeq(s, i, i + 2) = sep}
    IN  IF hits = {} THEN s
        ELSE SubSeq(s, 1, (CHOOSE i \in hits : \A j \in hits : i <= j) - 1)

----------------------------------------------------------------------------
\* The application catalog and the identifier index.

\* A Python dict with no key.
EmptyDict == [k \in {} |-> None]

\* An optional object: <<>> is Python's None, <<x>> is the object x.
Nothing == <<>>
Just(x) == <<x>>

\* The keys one descriptor registers (the body of the loop of
\* _build_app_identifiers_map; all of them map to the same descriptor, so
\* their order within one descriptor is not observable).
AppKeys(app) ==
    (IF Truthy(app.name) THEN {Lower(app.name)} ELSE {})
    \cup (IF Truthy(app.display_name) THEN {Lower(app.display_name)} ELSE {})
    \cup (IF Truthy(app.window_class) THEN {Lower(app.window_class)} ELSE {})
    \cup (IF Truthy(app.executable)
          THEN {Lower(LastSegment(app.executable))} ELSE {})
    \cup (IF Truthy(app.command_line)
          THEN {Lower(LastSegment(FirstToken(app.command_line)))} ELSE {})

\* RegisterAll in which the first descriptor of a key stays
RECURSIVE RegisterAll_first(_, _)
RegisterAll_first(apps, identifiers) ==
    IF apps = <<>> THEN identifiers
    ELSE RegisterAll_first(Tail(apps),
                           identifiers @@ [k \in AppKeys(Head(apps)) |-> Head(apps)])

\* identifiers[key] = app, for every key of every descriptor in catalog order:
\* a later descriptor overwrites an earlier one.
RECURSIVE RegisterAll(_, _)
RegisterAll(apps, identifiers) ==
    IF apps = <<>> THEN identifiers
    ELSE RegisterAll(Tail(apps),
                     [k \in AppKeys(Head(apps)) |-> Head(apps)] @@ identifiers)

_build_app_identifiers_map(apps) == RegisterAll(apps, EmptyDict)

\* Dock.app_identifiers is rebuilt from _all_apps wherever _all_apps is
\* assigned (lines 275-276 and 541-543), so it is a function of all_apps.
app_identifiers == _build_app_identifiers_map(all_apps)

FuzzyHit_name_only(app, normalized_id) ==
    Truthy(app.name) /\ Contains(Lower(app.name), normalized_id)

\* The condition of the fuzzy scan of find_app_by_key for one descriptor.
FuzzyHit(app, normalized_id) ==
    \/ Truthy(app.name) /\ Contains(Lower(app.name), normalized_id)
    \/ Truthy(app.display_name) /\ Contains(Lower(app.display_name), normalized_id)
    \/ Truthy(app.window_class) /\ Contains(Lower(app.window_class), normalized_id)
    \/ Truthy(app.executable) /\ Contains(Lower(app.executable), normalized_id)
    \/ Truthy(app.command_line) /\ Contains(Lower(app.command_line), normalized_id)

find_app_by_key(key_value) ==
    IF ~Truthy(key_value) THEN Nothing
    ELSE LET normalized_id == Lower(key_value)
             hits == {i \in 1..Len(all_apps) : FuzzyHit(all_apps[i], normalized_id)}
         IN  IF normalized_id \in DOMAIN app_identifiers
             THEN Just(app_identifiers[normalized_id])
             ELSE IF hits = {} THEN Nothing
             ELSE Just(all_apps[CHOOSE i \in hits : \A j \in hits : i <= j])

\* An app identifier (a pinned record, or what a button carries) is a bare
\* string [k |-> "str", s |-> ...] or a dict [k |-> "dict", d |-> ...].
Str(s)  == [k |-> "str", s |-> s, d |-> EmptyDict]
Dict(d) == [k |-> "dict", s |-> <<>>, d |-> d]

IdentifierKeys == <<"window_class", "executable", "command_line", "name", "display_name">>

\* The loop of find_app over the keys of a dict, from key number i on.
RECURSIVE FindAppFrom(_, _)
FindAppFrom(d, i) ==
    IF i > Len(IdentifierKeys) THEN Nothing
    ELSE LET key == IdentifierKeys[i]
             app == IF key \in DOMAIN d /\ Truthy(d[key])
                    THEN find_app_by_key(d[key]) ELSE Nothing
         IN  IF app # Nothing THEN app ELSE FindAppFrom(d, i + 1)

find_app(app_identifier) ==
    IF app_identifier.k = "dict"
    THEN (IF DOMAIN app_identifier.d = {} THEN Nothing
          ELSE FindAppFrom(app_identifier.d, 1))
    ELSE find_app_by_key(app_identifier.s)

\* The dict that _migrate_config, _create_app_identifier and
\* update_pinned_apps build from a descriptor.
AppData(app) ==
    Dict([key \in {"name", "display_name", "window_class", "executable",
                   "command_line"} |-> app[key]])

----------------------------------------------------------------------------
\* Live windows and their grouping.  A window record is
\* [address, initialClass, class, title]; running_windows, a Python dict,
\* is the sequence of its [key, val] items in insertion order.

unknown_app == <<"u", "n", "k", "n", "o", "w", "n", "-", "a", "p", "p">>

\* _extract_window_id that keeps the blanks around the first segment
_extract_window_id_unstripped(client) ==
    IF Lower(client.initialClass) # <<>> THEN Lower(client.initialClass)
    ELSE IF Lower(client.class) # <<>> THEN Lower(client.class)
    ELSE IF Lower(client.title) # <<>>
    THEN LET title == Lower(client.title)
             possible_name == BeforeDash(title)
         IN  IF possible_name # <<>> /\ Len(possible_name) > 1
             THEN possible_name ELSE title
    ELSE unknown_app

_extract_window_id(client) ==
    IF Lower(client.initialClass) # <<>> THEN Lower(client.initialClass)
    ELSE IF Lower(client.class) # <<>> THEN Lower(client.class)
    ELSE IF Lower(client.title) # <<>>
    THEN LET title == Lower(client.title)
             possible_name == Strip(BeforeDash(title))
         IN  IF possible_name # <<>> /\ Len(possible_name) > 1
             THEN possible_name ELSE title
    ELSE unknown_app

HasKey(dict, key) == \E i \in 1..Len(dict) : dict[i].key = key

Get(dict, key) == dict[CHOOSE i \in 1..Len(dict) : dict[i].key = key].val

Keys(dict) == {dict[i].key : i \in 1..Len(dict)}

\* dict.setdefault(key, []).extend(items)
SetDefaultExtend(dict, key, items) ==
    LET d == IF HasKey(dict, key) THEN dict
             ELSE Append(dict, [key |-> key, val |-> <<>>])
    IN  [i \in 1..Len(d) |->
            IF d[i].key = key THEN [key |-> key, val |-> d[i].val \o items]
            ELSE d[i]]

\* The body of the loop of _build_running_windows.
GroupClient(running_windows, c) ==
    LET window_id == _extract_window_id(c)
        rw == SetDefaultExtend(running_windows, window_id, <<c>>)
        normalized_id == _normalize_window_class(window_id)
    IN  IF normalized_id # window_id
        THEN SetDefaultExtend(rw, normalized_id, Get(rw, window_id))
        ELSE rw

RECURSIVE GroupClients(_, _)
GroupClients(cs, running_windows) ==
    IF cs = <<>> THEN running_windows
    ELSE GroupClients(Tail(cs), GroupClient(running_windows, Head(cs)))

_build_running_windows(cs) == GroupClients(cs, <<>>)

----------------------------------------------------------------------------
\* Matching a pinned record with a live group.

\* set(identifiers) of _get_possible_identifiers.
PossibleIdentifierSet(app_data, app) ==
    (IF app_data.k = "dict"
     THEN {Lower(app_data.d[key]) : key \in
              {key \in DOMAIN app_data.d :
                  /\ \E i \in 1..Len(IdentifierKeys) : IdentifierKeys[i] = key
                  /\ Truthy(app_data.d[key])}}
     ELSE {Lower(app_data.s)})
    \cup
    (IF app = Nothing THEN {}
     ELSE LET a == app[1]
          IN  (IF Truthy(a.window_class) THEN {Lower(a.window_class)} ELSE {})
              \cup (IF Truthy(a.executable)
                    THEN {Lower(LastSegment(a.executable))} ELSE {})
              \cup (IF Truthy(a.command_line) /\ Strip(a.command_line) # <<>>
                    THEN {Lower(LastSegment(FirstToken(a.command_line)))} ELSE {})
              \cup (IF Truthy(a.name) THEN {Lower(a.name)} ELSE {})
              \cup (IF Truthy(a.display_name) THEN {Lower(a.display_name)} ELSE {}))

\* list(set(identifiers)): the iteration order of a set of str depends on the
\* hash seed of the process, so every order of the set is a possible list.
_get_possible_identifiers(app_data, app) ==
    LET S == PossibleIdentifierSet(app_data, app)
    IN  {p \in [1..Cardinality(S) -> S] :
            \A i, j \in 1..Cardinality(S) : p[i] = p[j] => i = j}

MatchIdentifier_ungated(identifier, running_windows) ==
    LET normalized == _normalize_window_class(identifier)
        fuzzy == {i \in 1..Len(running_windows) :
                     Contains(running_windows[i].key, identifier)}
    IN  IF HasKey(running_windows, identifier)
        THEN Just([instances |-> Get(running_windows, identifier),
                   matched_class |-> Just(identifier)])
        ELSE IF HasKey(running_windows, normalized)
        THEN Just([instances |-> Get(running_windows, normalized),
                   matched_class |-> Just(normalized)])
        ELSE IF fuzzy # {}
        THEN LET i == CHOOSE i \in fuzzy : \A j \in fuzzy : i <= j
             IN  Just([instances |-> running_windows[i].val,
                       matched_class |-> Just(running_windows[i].key)])
        ELSE Nothing

\* One turn of the loop of _find_instances_for_app: Nothing, or the match.
MatchIdentifier(identifier, running_windows) ==
    LET normalized == _normalize_window_class(identifier)
        fuzzy == {i \in 1..Len(running_windows) :
                     Contains(running_windows[i].key, identifier)}
    IN  IF HasKey(running_windows, identifier)
        THEN Just([instances |-> Get(running_windows, identifier),
                   matched_class |-> Just(identifier)])
        ELSE IF HasKey(running_windows, normalized)
        THEN Just([instances |-> Get(running_windows, normalized),
                   matched_class |-> Just(normalized)])
        ELSE IF Len(identifier) >= 3 /\ fuzzy # {}
        THEN LET i == CHOOSE i \in fuzzy : \A j \in fuzzy : i <= j
             IN  Just([instances |-> running_windows[i].val,
                       matched_class |-> Just(running_windows[i].key)])
        ELSE Nothing

RECURSIVE FindInstances(_, _)
FindInstances(possible_identifiers, running_windows) ==
    IF possible_identifiers = <<>>
    THEN [instances |-> <<>>, matched_class |-> Nothing]
    ELSE LET m == MatchIdentifier(Head(possible_identifiers), running_windows)
         IN  IF m # Nothing THEN m[1]
             ELSE FindInstances(Tail(possible_identifiers), running_windows)

\* Every (instances, matched_class) the call can return.
_find_instances_for_app(app_data, running_windows) ==
    {FindInstances(p, running_windows) :
        p \in _get_possible_identifiers(app_data, find_app(app_data))}

----------------------------------------------------------------------------
\* Buttons and the reconciliation pass.

\* A child of the view.  matched_class is not an attribute of the widget: it
\* records the key of the live group the pass gave the button (Nothing for a
\* pinned button with no running instance).
create_button(app_identifier, instances, matched_class) ==
    [name |-> "dock-app-button", app_identifier |-> app_identifier,
     desktop_app |-> find_app(app_identifier), instances |-> instances,
     matched_class |-> matched_class]

separator ==
    [name |-> "dock-separator", app_identifier |-> Str(<<>>),
     desktop_app |-> Nothing, instances |-> <<>>, matched_class |-> Nothing]

\* used_classes after the loop of _create_pinned_buttons, found[i] being what
\* _find_instances_for_app returned for the i-th pinned record.
UsedClasses(found) ==
    UNION {{found[i].matched_class[1],
            _normalize_window_class(found[i].matched_class[1])} :
           i \in {i \in 1..Len(found) :
                     /\ found[i].matched_class # Nothing
                     /\ Truthy(found[i].matched_class[1])}}

_create_pinned_buttons(pinned_apps, found) ==
    [pinned_buttons |->
        [i \in 1..Len(pinned_apps) |->
            create_button(pinned_apps[i], found[i].instances, found[i].matched_class)],
     used_classes |-> UsedClasses(found)]

_create_app_identifier(class_name, instances) ==
    LET exact == IF class_name \in DOMAIN app_identifiers
                 THEN Just(app_identifiers[class_name]) ELSE Nothing
        norm_class == _normalize_window_class(class_name)
        by_norm == IF exact # Nothing THEN exact
                   ELSE IF norm_class \in DOMAIN app_identifiers
                   THEN Just(app_identifiers[norm_class]) ELSE Nothing
        by_key == IF by_norm # Nothing THEN by_norm ELSE find_app_by_key(class_name)
        potential_name == Strip(BeforeDash(instances[1].title))
        app == IF by_key = Nothing /\ instances # <<>> /\ Truthy(instances[1].title)
                  /\ Len(potential_name) > 2
               THEN find_app_by_key(potential_name) ELSE by_key
    IN  IF app # Nothing THEN AppData(app[1]) ELSE Str(class_name)

RECURSIVE OpenButtonsFrom(_, _, _)
OpenButtonsFrom(running_windows, used_classes, i) ==
    IF i > Len(running_windows) THEN <<>>
    ELSE LET class_name == running_windows[i].key
             instances == running_windows[i].val
         IN  (IF class_name \notin used_classes
              THEN <<create_button(_create_app_identifier(class_name, instances),
                                   instances, Just(class_name))>>
              ELSE <<>>)
             \o OpenButtonsFrom(running_windows, used_classes, i + 1)

_create_open_buttons(running_windows, used_classes) ==
    OpenButtonsFrom(running_windows, used_classes, 1)

\* _combine_buttons that puts the separator in whatever the sections hold
_combine_buttons_separating(pinned_buttons, open_buttons) ==
    pinned_buttons \o <<separator>> \o open_buttons

_combine_buttons(pinned_buttons, open_buttons) ==
    pinned_buttons
    \o (IF pinned_buttons # <<>> /\ open_buttons # <<>> THEN <<separator>> ELSE <<>>)
    \o open_buttons

\* Every list found[i] \in _find_instances_for_app(pinned_apps[i], ...).
FoundLists(pinned_apps, running_windows) ==
    LET per == [i \in 1..Len(pinned_apps) |->
                   _find_instances_for_app(pinned_apps[i], running_windows)]
    IN  {f \in [1..Len(pinned_apps) -> UNION {per[i] : i \in 1..Len(pinned_apps)}] :
            \A i \in 1..Len(pinned_apps) : f[i] \in per[i]}

\* view.children as update_dock computes it, for one list found.
Reconcile(pinned_apps, running_windows, found) ==
    LET p == _create_pinned_buttons(pinned_apps, found)
    IN  _combine_buttons(p.pinned_buttons,
                         _create_open_buttons(running_windows, p.used_classes))

----------------------------------------------------------------------------
\* The JSON text of dock.json, as a sequence of tokens.  A dict key is an
\* atom: its string token carries the one-element sequence <<key>>.

Tok(t)    == [t |-> t, v |-> <<>>]
StrTok(s) == [t |-> "str", v |-> s]

\* No file at config_path: open() raises FileNotFoundError.
NoFile == <<Tok("ENOENT")>>

RECURSIVE Join(_)
Join(parts) ==
    IF parts = <<>> THEN <<>>
    ELSE IF Len(parts) = 1 THEN parts[1]
    ELSE parts[1] \o <<Tok(",")>> \o Join(Tail(parts))

\* The keys of a dict, in the order the dicts of this program are built in.
KeyOrder == <<"name", "display_name", "window_class", "executable", "command_line">>

\* A dump that writes None as the empty string
DumpMember_blank(d, key) ==
    <<StrTok(<<key>>), Tok(":")>>
    \o (IF d[key] = None THEN <<StrTok(<<>>)>> ELSE <<StrTok(d[key])>>)

DumpMember(d, key) ==
    <<StrTok(<<key>>), Tok(":")>>
    \o (IF d[key] = None THEN <<Tok("null")>> ELSE <<StrTok(d[key])>>)

DumpDict(d) ==
    LET present == SelectSeq(KeyOrder, LAMBDA key : key \in DOMAIN d)
    IN  <<Tok("{")>>
        \o Join([i \in 1..Len(present) |-> DumpMember(d, present[i])])
        \o <<Tok("}")>>

DumpItem(item) == IF item.k = "str" THEN <<StrTok(item.s)>> ELSE DumpDict(item.d)

DumpList(l) ==
    <<Tok("[")>> \o Join([i \in 1..Len(l) |-> DumpItem(l[i])]) \o <<Tok("]")>>

\* json.dump(self.config, file)
json_dump(document) ==
    <<Tok("{")>>
    \o (IF "pinned_apps" \in DOMAIN document
        THEN <<StrTok(<<"pinned_apps">>), Tok(":")>> \o DumpList(document["pinned_apps"])
        ELSE <<>>)
    \o <<Tok("}")>>

\* json.load: a parse yields [ok, value, rest]; ok = FALSE is JSONDecodeError.
ParseError == [ok |-> FALSE, value |-> <<>>, rest |-> <<>>]
Parsed(value, rest) == [ok |-> TRUE, value |-> value, rest |-> rest]
From(ts, i) == SubSeq(ts, i, Len(ts))

\* key ":" value, then "," and more members, or "}"
RECURSIVE ParseMembers(_, _)
ParseMembers(ts, d) ==
    IF Len(ts) >= 4 /\ ts[1].t = "str" /\ Len(ts[1].v) = 1 /\ ts[2].t = ":"
       /\ ts[3].t \in {"str", "null"}
    THEN LET d2 == (ts[1].v[1] :> (IF ts[3].t = "null" THEN None ELSE ts[3].v)) @@ d
         IN  IF ts[4].t = "}" THEN Parsed(d2, From(ts, 5))
             ELSE IF ts[4].t = "," THEN ParseMembers(From(ts, 5), d2)
             ELSE ParseError
    ELSE ParseError

\* The element of a singleton: Only({f(x) : x \in {e}}) is f(e), with e
\* computed once.
Only(S) == CHOOSE x \in S : TRUE

\* an element of pinned_apps: a string, or "{" members "}"
ParseItem(ts) ==
    IF ts = <<>> THEN ParseError
    ELSE IF ts[1].t = "str" THEN Parsed(Str(ts[1].v), Tail(ts))
    ELSE IF ts[1].t = "{"
    THEN (IF Len(ts) >= 2 /\ ts[2].t = "}" THEN Parsed(Dict(EmptyDict), From(ts, 3))
          ELSE Only({IF r.ok THEN Parsed(Dict(r.value), r.rest) ELSE ParseError :
                       r \in {ParseMembers(Tail(ts), EmptyDict)}}))
    ELSE ParseError

\* item, then "," and more items, or "]"
RECURSIVE ParseItems(_, _)
ParseItems(ts, l) ==
    Only({IF ~r.ok \/ r.rest = <<>> THEN ParseError
          ELSE IF r.rest[1].t = "]" THEN Parsed(Append(l, r.value), Tail(r.rest))
          ELSE IF r.rest[1].t = "," THEN ParseItems(Tail(r.rest), Append(l, r.value))
          ELSE ParseError :
             r \in {ParseItem(ts)}})

ParseList(ts) ==
    IF Len(ts) >= 2 /\ ts[1].t = "[" /\ ts[2].t = "]" THEN Parsed(<<>>, From(ts, 3))
    ELSE IF Len(ts) >= 2 /\ ts[1].t = "[" THEN ParseItems(Tail(ts), <<>>)
    ELSE ParseError

\* A JSON document that is a list and not an object.
JsonList(l) == [json_list |-> l]

\* isinstance(value, dict), of what json_load returns
IsObject(value) == "json_list" \notin DOMAIN value

\* json.load(file) of a document {"pinned_apps": [...]}, {} or [...]
json_load(ts) ==
    IF Len(ts) = 2 /\ ts[1].t = "{" /\ ts[2].t = "}" THEN Parsed(EmptyDict, <<>>)
    ELSE IF ts # <<>> /\ ts[1].t = "["
    THEN Only({IF r.ok /\ r.rest = <<>> THEN Parsed(JsonList(r.value), <<>>)
               ELSE ParseError :
                  r \in {ParseList(ts)}})
    ELSE IF Len(ts) >= 4 /\ ts[1].t = "{" /\ ts[2] = StrTok(<<"pinned_apps">>)
            /\ ts[3].t = ":"
    THEN Only({IF r.ok /\ Len(r.rest) = 1 /\ r.rest[1].t = "}"
               THEN Parsed("pinned_apps" :> r.value, <<>>)
               ELSE ParseError :
                  r \in {ParseList(From(ts, 4))}})
    ELSE ParseError

----------------------------------------------------------------------------
\* DockConfig.

\* config.get("pinned_apps", [])
PinnedApps(document) ==
    IF "pinned_apps" \in DOMAIN document THEN document["pinned_apps"] ELSE <<>>

_needs_migration(config_data) ==
    LET pinned_apps == PinnedApps(config_data)
    IN  pinned_apps # <<>> /\ pinned_apps[1].k = "str"

\* app_map.get(app_id): the last descriptor of the catalog with that name
AppMapGet(app_id) ==
    LET hits == {i \in 1..Len(all_apps) :
                    Truthy(all_apps[i].name) /\ all_apps[i].name = app_id}
    IN  IF hits = {} THEN Nothing
        ELSE Just(all_apps[CHOOSE i \in hits : \A j \in hits : j <= i])

\* A dict among the elements cannot be a key of app_map.get: TypeError.
MigrationRaises(config_data) ==
    \E i \in 1..Len(config_data["pinned_apps"]) :
        config_data["pinned_apps"][i].k = "dict"

\* _migrate_config that drops the strings of no application
_migrate_config_dropping(config_data) ==
    LET old_pinned == SelectSeq(config_data["pinned_apps"],
                                LAMBDA x : AppMapGet(x.s) # Nothing)
    IN  "pinned_apps" :> [i \in 1..Len(old_pinned) |-> AppData(AppMapGet(old_pinned[i].s)[1])]

_migrate_config(config_data) ==
    LET old_pinned == config_data["pinned_apps"]
    IN  "pinned_apps" :>
            [i \in 1..Len(old_pinned) |->
                LET app == AppMapGet(old_pinned[i].s)
                IN  IF app # Nothing THEN AppData(app[1])
                    ELSE Dict("name" :> old_pinned[i].s)]

EmptyConfig == "pinned_apps" :> <<>>

\* [raised, config]: raised when an exception other than FileNotFoundError
\* and JSONDecodeError leaves _read_config.  A document that is a list has
\* no get(): AttributeError.
_read_config(content) ==
    Only({IF content = NoFile \/ ~r.ok THEN [raised |-> FALSE, config |-> EmptyConfig]
          ELSE IF ~IsObject(r.value) THEN [raised |-> TRUE, config |-> EmptyConfig]
          ELSE IF ~_needs_migration(r.value) THEN [raised |-> FALSE, config |-> r.value]
          ELSE IF MigrationRaises(r.value) THEN [raised |-> TRUE, config |-> EmptyConfig]
          ELSE [raised |-> FALSE, config |-> _migrate_config(r.value)] :
             r \in {json_load(content)}})

----------------------------------------------------------------------------
\* The dock.  The handlers are functions of the record d of everything a
\* handler can change, so that a handler that calls another is their
\* composition; an action reads Cur and assigns through Becomes.

Cur ==
    [config |-> config, file |-> file, pinned |-> pinned, children |-> children,
     always_show |-> always_show, saved_always_show |-> saved_always_show,
     hide_id |-> hide_id, drag_in_progress |-> drag_in_progress,
     is_mouse_over_dock_area |-> is_mouse_over_dock_area,
     forced_occlusion |-> forced_occlusion, reveal_child |-> reveal_child,
     timers |-> timers, idle |-> idle]

Becomes(d) ==
    /\ config' = d.config
    /\ file' = d.file
    /\ pinned' = d.pinned
    /\ children' = d.children
    /\ always_show' = d.always_show
    /\ saved_always_show' = d.saved_always_show
    /\ hide_id' = d.hide_id
    /\ drag_in_progress' = d.drag_in_progress
    /\ is_mouse_over_dock_area' = d.is_mouse_over_dock_area
    /\ forced_occlusion' = d.forced_occlusion
    /\ reveal_child' = d.reveal_child
    /\ timers' = d.timers
    /\ idle' = d.idle

\* dock_revealer.set_reveal_child(b); the "occluded" style class that goes
\* with it is rendering and is left out.
SetRevealChild(d, b) == [d EXCEPT !.reveal_child = b]

\* check_occlusion_state that does not read _prevent_occlusion
check_occlusion_state_unprevented(d) ==
    IF integrated_mode THEN d
    ELSE IF d.forced_occlusion
    THEN SetRevealChild(d, d.is_mouse_over_dock_area)
    ELSE IF d.is_mouse_over_dock_area \/ d.drag_in_progress
    THEN SetRevealChild(d, TRUE)
    ELSE SetRevealChild(d, d.always_show)

check_occlusion_state(d) ==
    IF integrated_mode THEN d
    ELSE IF d.forced_occlusion
    THEN (IF d.is_mouse_over_dock_area
          THEN (IF ~d.reveal_child THEN SetRevealChild(d, TRUE) ELSE d)
          ELSE (IF d.reveal_child THEN SetRevealChild(d, FALSE) ELSE d))
    ELSE IF d.is_mouse_over_dock_area \/ d.drag_in_progress \/ prevent_occlusion
    THEN (IF ~d.reveal_child THEN SetRevealChild(d, TRUE) ELSE d)
    ELSE IF d.always_show
    THEN (IF ~d.reveal_child THEN SetRevealChild(d, TRUE) ELSE d)
    ELSE (IF d.reveal_child THEN SetRevealChild(d, FALSE) ELSE d)

\* The answers to j/clients: the JSON text of a list of clients, a text
\* that is not JSON, and no text at all: send_command() or decode() raised.
ReplyKinds == {"json", "malformed", "raises"}

\* [raised, clients]: only json.JSONDecodeError is caught.
get_clients(kind, cs) ==
    CASE kind = "json"      -> [raised |-> FALSE, clients |-> cs]
      [] kind = "malformed" -> [raised |-> FALSE, clients |-> <<>>]
      [] kind = "raises"    -> [raised |-> TRUE, clients |-> <<>>]

\* The records update_dock can leave, cs being what get_clients() returns:
\* one for each order in which the sets of candidate identifiers can be
\* enumerated.  update_app_map() reads the same
\* catalog again; idle_add(_update_size) only resizes the window.
update_dock(d, cs) ==
    LET running_windows == _build_running_windows(cs)
    IN  {LET d1 == [d EXCEPT
                      !.children = Reconcile(d.pinned, running_windows, found),
                      !.drag_in_progress = FALSE]
         IN  IF ~integrated_mode THEN check_occlusion_state(d1) ELSE d1 :
            found \in FoundLists(d.pinned, running_windows)}

\* GLib.source_remove(d.hide_id)
SourceRemove(d) == [d EXCEPT !.timers = @ \ {d.hide_id}]

\* The id GLib gives a new source: one that no live source has and that is
\* not the one just removed.
NewSourceId(d) ==
    CHOOSE i \in 1..(MaxTimers + 1) :
        /\ i \notin d.timers \cup {d.hide_id}
        /\ \A j \in 1..(MaxTimers + 1) : j \notin d.timers \cup {d.hide_id} => i <= j

\* delay_hide that installs a timer without removing the one it replaces
delay_hide_keeping(d) ==
    IF integrated_mode THEN d
    ELSE LET id == NewSourceId(d)
         IN  [d EXCEPT !.hide_id = id, !.timers = @ \cup {id}]

delay_hide(d) ==
    IF integrated_mode THEN d
    ELSE LET d1 == IF d.hide_id # 0 THEN SourceRemove(d) ELSE d
             id == NewSourceId(d)
         IN  [d1 EXCEPT !.hide_id = id, !.timers = @ \cup {id}]

\* The timeout source id fires; returning False removes it.
hide_dock_if_not_hovered_unchecked(d, id) ==
    LET d0 == [d EXCEPT !.timers = @ \ {id}]
        d1 == [d0 EXCEPT !.hide_id = 0]
    IN  IF integrated_mode THEN d0
        ELSE IF ~d1.always_show THEN SetRevealChild(d1, FALSE)
        ELSE d1

hide_dock_if_not_hovered(d, id) ==
    LET d0 == [d EXCEPT !.timers = @ \ {id}]
        d1 == [d0 EXCEPT !.hide_id = 0]
    IN  IF integrated_mode THEN d0
        ELSE IF ~d1.is_mouse_over_dock_area /\ ~d1.drag_in_progress
                /\ ~prevent_occlusion /\ ~d1.always_show
        THEN SetRevealChild(d1, FALSE)
        ELSE d1

\* The cancellation _on_hover_enter, _on_dock_enter and _on_child_enter share.
CancelHide(d) == IF d.hide_id # 0 THEN [SourceRemove(d) EXCEPT !.hide_id = 0] ELSE d

_on_hover_enter(d) ==
    IF integrated_mode THEN d
    ELSE SetRevealChild(CancelHide([d EXCEPT !.is_mouse_over_dock_area = TRUE]), TRUE)

_on_hover_leave(d) ==
    IF integrated_mode THEN d
    ELSE LET d1 == [d EXCEPT !.is_mouse_over_dock_area = FALSE]
         IN  IF d1.forced_occlusion THEN SetRevealChild(d1, FALSE) ELSE delay_hide(d1)

_on_dock_enter(d) ==
    IF integrated_mode THEN d
    ELSE SetRevealChild(CancelHide([d EXCEPT !.is_mouse_over_dock_area = TRUE]), TRUE)

\* inferior: event.detail == Gdk.NotifyType.INFERIOR
_on_dock_leave(d, inferior) ==
    IF integrated_mode \/ inferior THEN d
    ELSE LET d1 == [d EXCEPT !.is_mouse_over_dock_area = FALSE]
         IN  IF d1.forced_occlusion THEN SetRevealChild(d1, FALSE) ELSE delay_hide(d1)

_on_child_enter(d) ==
    IF integrated_mode THEN d
    ELSE CancelHide([d EXCEPT !.is_mouse_over_dock_area = TRUE])

on_drag_begin(d) == [d EXCEPT !.drag_in_progress = TRUE]

IdleCall(fn, widget) == [fn |-> fn, widget |-> widget]

on_drag_end(d, widget) ==
    IF ~d.drag_in_progress THEN d
    ELSE [d EXCEPT !.idle = Append(@, IdleCall("process_drag_end", widget))]

force_occlusion(d) ==
    IF integrated_mode THEN d
    ELSE LET d1 == [d EXCEPT !.saved_always_show = Just(d.always_show),
                             !.always_show = FALSE,
                             !.forced_occlusion = TRUE]
         IN  IF ~d1.is_mouse_over_dock_area THEN SetRevealChild(d1, FALSE) ELSE d1

\* restore_from_occlusion that leaves always_show as force_occlusion set it
restore_from_occlusion_forgetting(d) ==
    IF integrated_mode THEN d
    ELSE check_occlusion_state([d EXCEPT !.forced_occlusion = FALSE,
                                         !.saved_always_show = Nothing])

restore_from_occlusion(d) ==
    IF integrated_mode THEN d
    ELSE LET d1 == [d EXCEPT !.forced_occlusion = FALSE]
             d2 == IF d1.saved_always_show # Nothing
                   THEN [d1 EXCEPT !.always_show = d1.saved_always_show[1],
                                   !.saved_always_show = Nothing]
                   ELSE d1
         IN  check_occlusion_state(d2)

\* get_clients() and get_workspace() are asked and their answers dropped.
check_hide(d) ==
    IF integrated_mode THEN d
    ELSE IF d.is_mouse_over_dock_area \/ d.drag_in_progress \/ prevent_occlusion THEN d
    ELSE IF d.always_show
    THEN (IF ~d.reveal_child THEN SetRevealChild(d, TRUE) ELSE d)
    ELSE (IF d.reveal_child THEN SetRevealChild(d, FALSE) ELSE d)

----------------------------------------------------------------------------
\* Persistence and the pinned list.

\* DockConfig.save(): how open() and json.dump() end.  open(path, "w")
\* truncates the file before the first byte is written.
SaveOutcomes == {"ok", "open_failed", "write_failed"}

save(d, outcome) ==
    CASE outcome = "ok"           -> [d EXCEPT !.file = json_dump(d.config)]
      [] outcome = "open_failed"  -> d
      [] outcome = "write_failed" -> [d EXCEPT !.file = <<>>]

save_returns_true(outcome) == TRUE

\* What save() returns: every exception is caught and answered with False.
save_returns(outcome) == outcome = "ok"

\* dock_config.pinned_apps = value
SetPinnedApps(document, value) == ("pinned_apps" :> value) @@ document

\* dict.get("name")
GetName(m) == IF "name" \in DOMAIN m THEN m["name"] ELSE None

_app_ids_match(app_id1, app_id2) ==
    IF app_id1.k = "dict" /\ app_id2.k = "dict"
    THEN GetName(app_id1.d) = GetName(app_id2.d)
    ELSE app_id1 = app_id2

\* 0 stands for the -1 of the source, the indices being 1-based here.
_find_pinned_app_index(d, app_id) ==
    LET hits == {i \in 1..Len(d.pinned) : _app_ids_match(app_id, d.pinned[i])}
    IN  IF hits = {} THEN 0 ELSE CHOOSE i \in hits : \A j \in hits : i <= j

\* list.pop(i)
Pop(l, i) == SubSeq(l, 1, i - 1) \o SubSeq(l, i + 1, Len(l))

\* list.insert(i, x) for 1 <= i; an i past the end appends
Insert(l, i, x) ==
    IF i > Len(l) THEN Append(l, x)
    ELSE SubSeq(l, 1, i - 1) \o <<x>> \o SubSeq(l, i, Len(l))

\* Focusing the first instance, the other branch, changes nothing here.
_handle_drag_outside(d, widget, outcome) ==
    LET app_index == _find_pinned_app_index(d, widget.app_identifier)
    IN  IF app_index >= 1
        THEN LET popped == Pop(d.pinned, app_index)
                 d1 == [d EXCEPT !.pinned = popped,
                                 !.config = SetPinnedApps(d.config, popped)]
             IN  update_dock(save(d1, outcome), clients)
        ELSE {d}

\* The idle callback of on_drag_end.
process_drag_end(d, widget, is_outside, outcome) ==
    {LET d2 == [d1 EXCEPT !.drag_in_progress = FALSE]
     IN  IF ~integrated_mode THEN check_occlusion_state(d2) ELSE d2 :
        d1 \in IF is_outside THEN _handle_drag_outside(d, widget, outcome) ELSE {d}}

\* pinned_data of update_pinned_apps: the buttons before the separator.
RECURSIVE PinnedData(_)
PinnedData(kids) ==
    IF kids = <<>> \/ Head(kids).name = "dock-separator" THEN <<>>
    ELSE <<IF Head(kids).desktop_app # Nothing
           THEN AppData(Head(kids).desktop_app[1])
           ELSE Head(kids).app_identifier>> \o PinnedData(Tail(kids))

update_pinned_apps(d, skip_update, outcome) ==
    LET pinned_data == PinnedData(d.children)
        d1 == save([d EXCEPT !.config = SetPinnedApps(d.config, pinned_data),
                             !.pinned = pinned_data], outcome)
    IN  IF save_returns(outcome) /\ ~skip_update
        THEN update_dock(d1, clients) ELSE {d1}

_find_separator_index(kids) ==
    LET hits == {i \in 1..Len(kids) : kids[i].name = "dock-separator"}
    IN  IF hits = {} THEN 0 ELSE CHOOSE i \in hits : \A j \in hits : i <= j

_is_cross_section_drag(source, target, sep) ==
    IF sep = 0 THEN FALSE
    ELSE (source < sep /\ target > sep) \/ (source > sep /\ target < sep)

\* A drop on the child number target_index, the drag data being the text of
\* source_index; children.pop raises IndexError for an index past the end.
on_drag_data_received(d, source_index, target_index, outcome) ==
    IF source_index = target_index \/ source_index > Len(d.children) THEN {d}
    ELSE LET cross_section ==
                 _is_cross_section_drag(source_index, target_index,
                                        _find_separator_index(d.children))
             moved == Insert(Pop(d.children, source_index), target_index,
                             d.children[source_index])
             after == update_pinned_apps([d EXCEPT !.children = moved],
                                         ~cross_section, outcome)
         IN  IF cross_section
             THEN {[d1 EXCEPT !.idle = Append(@, IdleCall("update_dock", separator))] :
                      d1 \in after}
             ELSE after

\* check_config_change and check_config_change_immediate: an exception out
\* of reload() ends the callback before anything is assigned.
ConfigChanged_always(d, r) ==
    LET d1 == [d EXCEPT !.config = r.config]
        d2 == IF ~integrated_mode /\ d1.always_show # data_always_show
              THEN check_occlusion_state([d1 EXCEPT !.always_show = data_always_show])
              ELSE d1
    IN  IF r.raised THEN {d}
        ELSE update_dock([d2 EXCEPT !.pinned = PinnedApps(d2.config)], clients)

\* check_config_change, r being what reload() read.
ConfigChanged(d, r) ==
    LET d1 == [d EXCEPT !.config = r.config]
        d2 == IF ~integrated_mode /\ d1.always_show # data_always_show
              THEN check_occlusion_state([d1 EXCEPT !.always_show = data_always_show])
              ELSE d1
    IN  IF r.raised THEN {d}
        ELSE IF PinnedApps(d2.config) # d2.pinned
        THEN update_dock([d2 EXCEPT !.pinned = PinnedApps(d2.config)], clients)
        ELSE {d2}

check_config_change(d) ==
    UNION {ConfigChanged(d, r) : r \in {_read_config(d.file)}}

check_config_change_immediate(d) == check_config_change(d)

----------------------------------------------------------------------------
\* Debounced streams (controls.py, mixer.py, bluetooth.py).  A stream is
\* [source_id, pending, sources, volume]: the handle the widget keeps (0 for
\* None), its pending value (0 for None), the ids of its live timeout
\* sources and the value of the device it drives; burst is the history of
\* the calls since the last expiry or cleanup.

Streams == {"BaseSlider", "BaseSmallControl", "MixerSlider", "BluetoothDeviceSlot"}

\* The streams of controls.py, whose schedule carries the value
\* (BaseIcon._schedule_update is BaseSmallControl._schedule_update again).
Controls == {"BaseSlider", "BaseSmallControl"}

NoBurst == [last |-> 0, earlier |-> {}, ended |-> ""]

NoTimer == [source_id |-> 0, pending |-> 0, sources |-> {}, volume |-> 0,
            burst |-> NoBurst]

\* The id GLib.timeout_add returns: the least one that no live source has
\* and that is not the one just removed.
NewTimerId(s) ==
    CHOOSE i \in 1..(MaxTimers + 1) :
        /\ i \notin s.sources \cup {s.source_id}
        /\ \A j \in 1..(MaxTimers + 1) : j \notin s.sources \cup {s.source_id} => i <= j

\* _schedule_update that installs a timer without removing the one it replaces
_schedule_update_keeping(s, value) ==
    [s EXCEPT !.pending = value, !.source_id = NewTimerId(s),
              !.sources = @ \cup {NewTimerId(s)}]

\* _schedule_update that keeps the value that is pending
_schedule_update_first(s, value) ==
    [s EXCEPT !.pending = IF @ = 0 THEN value ELSE @, !.source_id = NewTimerId(s),
              !.sources = (IF s.source_id # 0 THEN @ \ {s.source_id} ELSE @)
                          \cup {NewTimerId(s)}]

\* BaseSlider._schedule_update and BaseSmallControl._schedule_update
_schedule_update(s, value) ==
    [s EXCEPT !.pending = value, !.source_id = NewTimerId(s),
              !.sources = (IF s.source_id # 0 THEN @ \ {s.source_id} ELSE @)
                          \cup {NewTimerId(s)}]

\* MixerSlider.on_value_changed, the stream being there and the change not
\* coming from it
on_value_changed(s) ==
    [s EXCEPT !.source_id = NewTimerId(s),
              !.sources = (IF s.source_id # 0 THEN @ \ {s.source_id} ELSE @)
                          \cup {NewTimerId(s)}]

\* BluetoothDeviceSlot._schedule_resort
_schedule_resort(s) ==
    [s EXCEPT !.source_id = NewTimerId(s),
              !.sources = (IF s.source_id # 0 THEN @ \ {s.source_id} ELSE @)
                          \cup {NewTimerId(s)}]

\* The callback of the timeout source id: _apply_pending_change,
\* _update_callback, _apply_volume_change and _resort_callback all clear
\* the handle and return False, which removes the source.
\* _apply_pending_change and _update_callback write the pending value to
\* the device when there is one and the speaker, the microphone or the
\* screen is there (has_device).
TimerCallback(s, id, has_device) ==
    [s EXCEPT !.volume = IF s.pending # 0 /\ has_device THEN s.pending ELSE @,
              !.pending = 0, !.source_id = 0, !.sources = @ \ {id}]

\* cleanup(), MixerSlider._on_destroy and BluetoothDeviceSlot._cleanup
cleanup(s) ==
    IF s.source_id # 0
    THEN [s EXCEPT !.sources = @ \ {s.source_id}, !.source_id = 0]
    ELSE s

----------------------------------------------------------------------------
\* Worker threads (tools.py, pins.py).

\* A thread is [kind, pc, val, event], val being the status or the path it
\* found and event the file event it handles, and threads is the bag of the
\* threads that run; the widgets are ui: the markup of the
\* status button, the favicon of a pinned URL and the path a cell holds.
\* w is the record [threads, ui, ui_idle] a step reads and leaves.
NoUi == [button |-> "unset", favicon |-> "none", cell |-> "a"]

NoEvent == [event_type |-> "", src_path |-> "", dest_path |-> ""]

IdleAdd(w, fn, arg, event) ==
    [w EXCEPT !.ui_idle = Append(@, [fn |-> fn, arg |-> arg, event |-> event])]

Advance(w, t, pc, val) ==
    [w EXCEPT !.threads = (@ (-) SetToBag({t}))
                          (+) SetToBag({[t EXCEPT !.pc = pc, !.val = val]})]

Ends(w, t) == [w EXCEPT !.threads = @ (-) SetToBag({t})]

\* _check_thread that sets the button itself
_check_thread_direct(w, t, status) ==
    IF t.pc = "execute" THEN Advance(w, t, "post", status)
    ELSE [Ends(w, t) EXCEPT !.ui.button = t.val]

\* StatusChecker._check_thread: _execute_check and _parse_result give status
\* (False when they raise), then idle_add(self._update_ui, status).
_check_thread(w, t, status) ==
    IF t.pc = "execute" THEN Advance(w, t, "post", status)
    ELSE IdleAdd(Ends(w, t), "_update_ui", t.val, NoEvent)

\* do_download of download_favicon: urlretrieve gives the path of the icon
\* or raises, then idle_add(callback, temp_path) or idle_add(callback, None).
do_download(w, t, path) ==
    IF t.pc = "execute" THEN Advance(w, t, "post", path)
    ELSE IdleAdd(Ends(w, t), "_update_favicon", t.val, NoEvent)

\* FileChangeHandler.on_any_event, for the event t.event: it reads the
\* cells and posts _handle_file_event for the cell the event is about.
on_any_event(w, t) ==
    IF w.ui.cell # "" /\ w.ui.cell \in {t.event.src_path, t.event.dest_path}
    THEN IdleAdd(Ends(w, t), "_handle_file_event", "", t.event)
    ELSE Ends(w, t)

\* The callbacks, run by the main loop.
_update_ui(u, status) == [u EXCEPT !.button = status]

_update_favicon(u, favicon_path) ==
    IF favicon_path = "none" THEN u ELSE [u EXCEPT !.favicon = favicon_path]

_handle_file_event(u, event, dest_exists) ==
    CASE event.event_type = "deleted" -> [u EXCEPT !.cell = ""]
      [] event.event_type = "moved" ->
            IF dest_exists THEN [u EXCEPT !.cell = event.dest_path] ELSE u

----------------------------------------------------------------------------
\* The status checkers of the Toolbox (tools.py).  A checker is
\* [timer_id, sources]: the handle it keeps (0 for None) and the ids of the
\* live timeout sources whose callback is its _check; _check returns True,
\* so a source that calls it stays until it is removed.

\* The recorder and the pomodoro checkers go as the game mode checker
\* without its toggle.
Checkers == {"gamemode_checker", "keyboard_checker"}

NoChecker == [timer_id |-> 0, sources |-> {}]

NoToolbox == [phase |-> "new", checker |-> [k \in Checkers |-> NoChecker]]

\* The id GLib gives a new source of the checker.
NewCheckId(c) ==
    CHOOSE i \in 1..(MaxTimers + 2) :
        /\ i \notin c.sources
        /\ \A j \in 1..(MaxTimers + 2) : j \notin c.sources => i <= j

\* StatusChecker.start
start(c) == [c EXCEPT !.timer_id = NewCheckId(c), !.sources = @ \cup {NewCheckId(c)}]

\* StatusChecker.stop
stop(c) ==
    IF c.timer_id # 0
    THEN [c EXCEPT !.sources = @ \ {c.timer_id}, !.timer_id = 0]
    ELSE c

\* Toolbox._keyboard: GLib.timeout_add(500, self.keyboard_checker._check)
_keyboard(c) == [c EXCEPT !.sources = @ \cup {NewCheckId(c)}]

----------------------------------------------------------------------------
\* A BluetoothDeviceSlot (bluetooth.py).  The caches hold "None", "True" or
\* "False"; the cached label and the label hold the text.

Py(b) == IF b THEN "True" ELSE "False"

\* BluetoothDeviceSlot._update_connection_icon
_update_connection_icon(s) ==
    IF s.cached_connected = Py(s.device.connected) THEN s
    ELSE [s EXCEPT !.cached_connected = Py(s.device.connected),
                   !.icon = IF s.device.connected THEN "bluetooth_connected"
                            ELSE "bluetooth_disconnected"]

\* BluetoothDeviceSlot._update_connect_button
_update_connect_button(s) ==
    IF s.device.connecting
    THEN IF s.cached_connecting # "True"
         THEN [s EXCEPT !.cached_connecting = "True",
                        !.cached_label = "Connecting...",
                        !.label = "Connecting...",
                        !.sensitive = FALSE]
         ELSE s
    ELSE IF s.cached_connecting = "False" /\ s.cached_connected = Py(s.device.connected)
    THEN s
    ELSE LET new_label == IF s.device.connected THEN "Disconnect" ELSE "Connect"
         IN  [s EXCEPT !.cached_connecting = "False",
                       !.cached_connected = Py(s.device.connected),
                       !.cached_label = new_label,
                       !.label = IF s.cached_label # new_label THEN new_label ELSE @,
                       !.sensitive = TRUE]

\* BluetoothDeviceSlot._handle_device_state_change with _reposition_slot;
\* resort tells whether _schedule_resort is called.
_handle_device_state_change(s) ==
    IF s.device.paired # s.paired_on_init \/ s.device.connected # s.connected_on_init
    THEN LET target_box == IF s.device.paired THEN "paired_box" ELSE "available_box"
         IN  [s EXCEPT !.parent = target_box,
                       !.resort = s.parent # target_box,
                       !.paired_on_init = s.device.paired,
                       !.connected_on_init = s.device.connected]
    ELSE s

\* BluetoothDeviceSlot.on_changed, the device being valid
on_changed(s) ==
    _handle_device_state_change(
        _update_connect_button(_update_connection_icon([s EXCEPT !.resort = FALSE])))

\* The slot of a device that is neither paired nor connected, as __init__
\* leaves it: the first "changed" was handled.
NewSlot ==
    on_changed([device |-> [paired |-> FALSE, connected |-> FALSE, connecting |-> FALSE],
                cached_connected |-> "None", cached_connecting |-> "None",
                cached_label |-> "None", label |-> "Connect", sensitive |-> TRUE,
                icon |-> "bluetooth_disconnected", parent |-> "available_box",
                resort |-> FALSE, paired_on_init |-> FALSE,
                connected_on_init |-> FALSE])

----------------------------------------------------------------------------
\* A click on a button: handle_app.

ShellCommand(cmd, address) == [cmd |-> cmd, address |-> address]

\* _launch_app: one of the launchers runs, no window is focused.
_launch_app(app_identifier, desktop_app) == ShellCommand("launch", 0)

\* get_focused() returned `focus`.
_focus_next_instance(instances, focus) ==
    LET hits == {i \in 1..Len(instances) : instances[i].address = focus}
        idx == IF hits = {} THEN -1
               ELSE (CHOOSE i \in hits : \A j \in hits : i <= j) - 1
        next_inst == instances[((idx + 1) % Len(instances)) + 1]
    IN  ShellCommand("focuswindow", next_inst.address)

handle_app(app_identifier, instances, desktop_app, focus) ==
    IF instances = <<>> THEN _launch_app(app_identifier, desktop_app)
    ELSE _focus_next_instance(instances, focus)

NoActivation == [entry |-> 0, cmds |-> <<>>]

----------------------------------------------------------------------------
\* The data the model runs on.

sFoo  == <<"f", "o", "o">>
sFoox == <<"f", "o", "o", "x">>

AppFoo ==
    [name |-> sFoo, display_name |-> <<"F", "o", "o">>,
     window_class |-> <<"F", "o", "o">>, executable |-> <<"/", "f", "o", "o">>,
     command_line |-> <<"f", "o", "o", " ", "x">>]

AppFoox ==
    [name |-> sFoox, display_name |-> None, window_class |-> None,
     executable |-> None, command_line |-> None]

Catalog == <<AppFoo, AppFoox>>

Window(initialClass, class, title) ==
    [initialClass |-> initialClass, class |-> class, title |-> title]

WinFoox   == Window(sFoox, sFoox, <<"x">>)
WinFoo    == Window(sFoo, sFoo, <<"x">>)
WinFooBin == Window(<<"F", "o", "o", ".", "b", "i", "n">>, <<>>, <<"x">>)
WinTitle  == Window(<<>>, <<>>, <<"F", "o", "o", " ", "-", " ", "x">>)

\* A window of no application of the catalog.
sBar   == <<"b", "a", "r">>
WinBar == Window(sBar, sBar, <<"y">>)

\* The client list of windows ws, the i-th with address i.
ClientList(ws) ==
    [i \in 1..Len(ws) |->
        [address |-> i, initialClass |-> ws[i].initialClass,
         class |-> ws[i].class, title |-> ws[i].title]]

FileOf(pinned_apps) == json_dump("pinned_apps" :> pinned_apps)

----------------------------------------------------------------------------
\* The state after Dock.__init__, for a choice of the environment.

DockInit(catalogs, files, windowLists, modes, readies) ==
    /\ all_apps \in catalogs
    /\ file \in files
    /\ ~_read_config(file).raised
    /\ clients \in {ClientList(ws) : ws \in windowLists}
    /\ data_always_show \in BOOLEAN
    /\ integrated_mode \in modes
    /\ conn_ready \in readies
    /\ prevent_occlusion = FALSE
    /\ occlusion_sources = IF conn_ready /\ ~integrated_mode THEN 1 ELSE 0
    /\ drag_source = Nothing
    /\ last = "__init__"
    /\ pre_force = Nothing
    /\ first_force = Nothing
    /\ LET d0 == [config |-> _read_config(file).config, file |-> file,
                  pinned |-> PinnedApps(_read_config(file).config),
                  children |-> <<>>,
                  always_show |-> IF integrated_mode THEN FALSE ELSE data_always_show,
                  saved_always_show |-> Nothing, hide_id |-> 0,
                  drag_in_progress |-> FALSE, is_mouse_over_dock_area |-> FALSE,
                  forced_occlusion |-> FALSE, reveal_child |-> FALSE,
                  timers |-> {}, idle |-> <<>>]
       IN  \E d \in (IF conn_ready THEN update_dock(d0, clients) ELSE {d0}) :
               /\ config = d.config
               /\ pinned = d.pinned
               /\ children = d.children
               /\ always_show = d.always_show
               /\ saved_always_show = d.saved_always_show
               /\ hide_id = d.hide_id
               /\ drag_in_progress = d.drag_in_progress
               /\ is_mouse_over_dock_area = d.is_mouse_over_dock_area
               /\ forced_occlusion = d.forced_occlusion
               /\ reveal_child = d.reveal_child
               /\ timers = d.timers
               /\ idle = d.idle
               /\ peer = [d EXCEPT !.file = NoFile]
    /\ debounced = [s \in Streams |-> NoTimer]
    /\ threads = EmptyBag
    /\ ui = NoUi
    /\ ui_idle = <<>>
    /\ focused = 0
    /\ activated = NoActivation
    /\ toolbox = NoToolbox
    /\ slot = NewSlot

----------------------------------------------------------------------------
\* The events of the main loop.  Every action is one handler, run to its end.

\* The handlers whose runs the properties below tell apart.
Observed == {"check_occlusion_state", "force_occlusion", "restore_from_occlusion",
             "update_dock", "reload", "check_config_change",
             "hide_dock_if_not_hovered", "on_drag_data_received"}

Did(handler) ==
    /\ last' = IF handler \in Observed THEN handler ELSE "other"
    /\ pre_force' = Nothing
    /\ first_force' = Nothing

Fixed == UNCHANGED <<all_apps, integrated_mode, callVars, sideVars>>

\* What only the environment changes.
EnvSame == UNCHANGED <<clients, data_always_show, prevent_occlusion>>

LoopSame == UNCHANGED <<conn_ready, occlusion_sources, drag_source>>

\* A new hide timer can be installed within the bound on live sources.
CanInstall == Cardinality(timers \cup {hide_id}) <= MaxTimers

IsButton(i) == children[i].name = "dock-app-button"

\* enter-notify-event and leave-notify-event of the hover activator
HoverEnter ==
    /\ ~integrated_mode
    /\ Becomes(_on_hover_enter(Cur))
    /\ Did("_on_hover_enter") /\ Fixed /\ EnvSame /\ LoopSame

HoverLeave ==
    /\ ~integrated_mode /\ CanInstall
    /\ Becomes(_on_hover_leave(Cur))
    /\ Did("_on_hover_leave") /\ Fixed /\ EnvSame /\ LoopSame

\* enter-notify-event and leave-notify-event of the dock's event box
DockEnter ==
    /\ ~integrated_mode
    /\ Becomes(_on_dock_enter(Cur))
    /\ Did("_on_dock_enter") /\ Fixed /\ EnvSame /\ LoopSame

DockLeave ==
    /\ ~integrated_mode /\ CanInstall
    /\ \E inferior \in BOOLEAN : Becomes(_on_dock_leave(Cur, inferior))
    /\ Did("_on_dock_leave") /\ Fixed /\ EnvSame /\ LoopSame

\* enter-notify-event of a button
ChildEnter ==
    /\ \E i \in 1..Len(children) : IsButton(i)
    /\ Becomes(_on_child_enter(Cur))
    /\ Did("_on_child_enter") /\ Fixed /\ EnvSame /\ LoopSame

\* A hide timer expires.
HideTimer ==
    /\ \E id \in timers : Becomes(hide_dock_if_not_hovered(Cur, id))
    /\ Did("hide_dock_if_not_hovered") /\ Fixed /\ EnvSame /\ LoopSame

\* drag-begin of a button
DragBegin ==
    /\ drag_source = Nothing
    /\ \E i \in 1..Len(children) : IsButton(i) /\ drag_source' = Just(children[i])
    /\ Becomes(on_drag_begin(Cur))
    /\ Did("on_drag_begin") /\ Fixed /\ EnvSame
    /\ UNCHANGED <<conn_ready, occlusion_sources>>

\* drag-end of the button the drag began on
DragEnd ==
    /\ drag_source # Nothing
    /\ Len(idle) < MaxIdle
    /\ Becomes(on_drag_end(Cur, drag_source[1]))
    /\ drag_source' = Nothing
    /\ Did("on_drag_end") /\ Fixed /\ EnvSame
    /\ UNCHANGED <<conn_ready, occlusion_sources>>

\* The main loop runs the oldest idle callback.
ProcessDragEnd ==
    /\ idle # <<>> /\ Head(idle).fn = "process_drag_end"
    /\ \E is_outside \in BOOLEAN, outcome \in SaveOutcomes :
           \E d \in process_drag_end([Cur EXCEPT !.idle = Tail(@)], Head(idle).widget,
                                     is_outside, outcome) : Becomes(d)
    /\ Did("process_drag_end") /\ Fixed /\ EnvSame /\ LoopSame

\* drag-data-received on the button number target_index, during the drag of
\* the button that on_drag_data_get found at source_index.
DragDataReceived ==
    /\ drag_source # Nothing
    /\ Len(idle) < MaxIdle
    /\ \E source_index, target_index \in 1..Len(children), outcome \in SaveOutcomes :
           /\ children[source_index] = drag_source[1]
           /\ IsButton(target_index)
           /\ \E d \in on_drag_data_received(Cur, source_index, target_index, outcome) :
                  Becomes(d)
    /\ Did("on_drag_data_received") /\ Fixed /\ EnvSame /\ LoopSame

\* The main loop runs update_dock, queued by a drop across the separator.
IdleUpdateDock ==
    /\ idle # <<>> /\ Head(idle).fn = "update_dock"
    /\ \E d \in update_dock([Cur EXCEPT !.idle = Tail(@)], clients) : Becomes(d)
    /\ Did("update_dock") /\ Fixed /\ EnvSame /\ LoopSame

ConfigChangedImmediate ==
    /\ idle # <<>> /\ Head(idle).fn = "check_config_change_immediate"
    /\ \E d \in check_config_change_immediate([Cur EXCEPT !.idle = Tail(@)]) : Becomes(d)
    /\ Did("check_config_change_immediate") /\ Fixed /\ EnvSame /\ LoopSame

\* Dock.notify_config_change(): Dock._instances holds the docks that are
\* not integrated.
NotifyConfigChange ==
    /\ ~integrated_mode
    /\ Len(idle) < MaxIdle
    /\ Becomes([Cur EXCEPT !.idle =
                   Append(@, IdleCall("check_config_change_immediate", separator))])
    /\ Did("notify_config_change") /\ Fixed /\ EnvSame /\ LoopSame

\* The 2 s poll.
ConfigPoll ==
    /\ \E d \in check_config_change(Cur) : Becomes(d)
    /\ Did("check_config_change") /\ Fixed /\ EnvSame /\ LoopSame

\* A recurring source calls check_occlusion_state.
Tick ==
    /\ occlusion_sources > 0
    /\ Becomes(check_occlusion_state(Cur))
    /\ Did("check_occlusion_state") /\ Fixed /\ EnvSame /\ LoopSame

\* event::workspace
WorkspaceChanged ==
    /\ ~integrated_mode
    /\ Becomes(check_hide(Cur))
    /\ Did("check_hide") /\ Fixed /\ EnvSame /\ LoopSame

\* event::openwindow: the compositor has a new window and update_dock runs
WindowOpened(w) ==
    /\ Len(clients) < MaxClients
    /\ clients' = Append(clients,
           [address |-> CHOOSE a \in 1..MaxClients :
                           \A i \in 1..Len(clients) : clients[i].address # a,
            initialClass |-> w.initialClass, class |-> w.class, title |-> w.title])
    /\ \E d \in update_dock(Cur, clients') : Becomes(d)
    /\ Did("update_dock") /\ Fixed /\ LoopSame
    /\ UNCHANGED <<data_always_show, prevent_occlusion>>

\* event::closewindow
WindowClosed ==
    /\ \E i \in 1..Len(clients) : clients' = Pop(clients, i)
    /\ \E d \in update_dock(Cur, clients') : Becomes(d)
    /\ Did("update_dock") /\ Fixed /\ LoopSame
    /\ UNCHANGED <<data_always_show, prevent_occlusion>>

\* event::openwindow or event::closewindow whose query of the clients fails:
\* an exception out of get_clients ends update_dock before it assigns.
QueryFails ==
    /\ \E kind \in ReplyKinds \ {"json"} :
           \E g \in {get_clients(kind, clients)} :
               IF g.raised
               THEN Becomes(Cur) /\ last' = "update_dock raised"
               ELSE /\ \E d \in update_dock(Cur, g.clients) : Becomes(d)
                    /\ last' = "update_dock without clients"
    /\ pre_force' = Nothing
    /\ first_force' = Nothing
    /\ Fixed /\ EnvSame /\ LoopSame

\* event::ready of a connection that was not ready at construction
OnReady ==
    /\ ~conn_ready
    /\ conn_ready' = TRUE
    /\ occlusion_sources' = IF integrated_mode THEN occlusion_sources
                            ELSE occlusion_sources + 1
    /\ \E d \in update_dock(Cur, clients) : Becomes(d)
    /\ Did("update_dock") /\ Fixed /\ EnvSame
    /\ UNCHANGED drag_source

ForceOcclusion ==
    /\ Becomes(force_occlusion(Cur))
    /\ last' = "force_occlusion" /\ pre_force' = Just(always_show)
    /\ first_force' = IF last = "force_occlusion" /\ first_force # Nothing
                      THEN Just([first_force[1] EXCEPT !.again = TRUE])
                      ELSE Just([always_show |-> always_show, again |-> FALSE])
    /\ Fixed /\ EnvSame /\ LoopSame

RestoreFromOcclusion ==
    /\ Becomes(restore_from_occlusion(Cur))
    /\ last' = "restore_from_occlusion"
    /\ pre_force' = IF last = "force_occlusion" THEN pre_force ELSE Nothing
    /\ first_force' = IF last = "force_occlusion" THEN first_force ELSE Nothing
    /\ Fixed /\ EnvSame /\ LoopSame

\* Another component assigns dock._prevent_occlusion.
SetPreventOcclusion ==
    /\ prevent_occlusion' = ~prevent_occlusion
    /\ Did("_prevent_occlusion") /\ Fixed /\ LoopSame
    /\ UNCHANGED <<clients, data_always_show>>
    /\ Becomes(Cur)

\* The user changes DOCK_ALWAYS_SHOW in the settings.
SettingsChanged ==
    /\ data_always_show' = ~data_always_show
    /\ Did("DOCK_ALWAYS_SHOW") /\ Fixed /\ LoopSame
    /\ UNCHANGED <<clients, prevent_occlusion>>
    /\ Becomes(Cur)

----------------------------------------------------------------------------
\* The dock with one pinned application and no window: every event of the
\* occlusion machine, of the drag of a button and of the configuration.

\* No call of a pure function is followed.
NoCall == call_arg = <<>> /\ call_ret = <<>>

Init ==
    /\ DockInit({Catalog}, {FileOf(<<AppData(AppFoo)>>)}, {<<>>}, BOOLEAN, BOOLEAN)
    /\ NoCall

Next ==
    \/ HoverEnter \/ HoverLeave \/ DockEnter \/ DockLeave \/ ChildEnter
    \/ HideTimer \/ DragBegin \/ DragEnd \/ ProcessDragEnd
    \/ NotifyConfigChange \/ ConfigChangedImmediate \/ ConfigPoll
    \/ Tick \/ WorkspaceChanged \/ OnReady
    \/ ForceOcclusion \/ RestoreFromOcclusion \/ SetPreventOcclusion
    \/ SettingsChanged

Spec == Init /\ [][Next]_vars

\* The dock with no pinned application while windows open and close: the
\* events that meet a drag or a pending hide.

InitDrag == DockInit({Catalog}, {NoFile}, {<<>>}, {FALSE}, {TRUE}) /\ NoCall

NextDrag ==
    \/ HoverEnter \/ HoverLeave \/ DockEnter \/ DockLeave \/ ChildEnter
    \/ HideTimer \/ DragBegin \/ DragEnd \/ ProcessDragEnd
    \/ Tick \/ WorkspaceChanged \/ WindowOpened(WinFoox) \/ WindowClosed
    \/ ForceOcclusion \/ RestoreFromOcclusion

SpecDrag == InitDrag /\ [][NextDrag]_vars

----------------------------------------------------------------------------
\* Calls of _normalize_window_class on a class name and on what it returned.

Stems == {sFoo, <<"F", "o", "o">>}

\* The lists of at most MaxSuffixes suffixes, as indices of `suffixes`.
SuffixLists == UNION {[1..n -> 1..Len(suffixes)] : n \in 0..MaxSuffixes}

ClassNames ==
    {<<>>} \cup {stem \o Concat([i \in 1..Len(l) |-> suffixes[l[i]]]) :
                    stem \in Stems, l \in SuffixLists}

DockSame == UNCHANGED <<envVars, dockVars, loopVars, histVars, sideVars>>

InitNorm ==
    /\ DockInit({Catalog}, {NoFile}, {<<>>}, {FALSE}, {TRUE})
    /\ call_arg \in ClassNames
    /\ call_ret = <<>>

\* call_ret holds normalize(call_arg), then normalize of that.
Normalize ==
    /\ Len(call_ret) < 2
    /\ call_ret' = Append(call_ret,
           _normalize_window_class(IF call_ret = <<>> THEN call_arg
                                   ELSE call_ret[Len(call_ret)]))
    /\ UNCHANGED call_arg
    /\ DockSame

NextNorm == Normalize

SpecNorm == InitNorm /\ [][NextNorm]_vars

----------------------------------------------------------------------------
\* _extract_window_id over window records.

Titles == UNION {[1..n -> {"A", " ", "-"}] : n \in 0..MaxTitle}

WindowRecords ==
    {Window(initialClass, class, title) :
        initialClass \in {<<>>, <<"F", "o", "o">>},
        class \in {<<>>, <<"B", "a", "r">>},
        title \in Titles}

InitExtract ==
    /\ DockInit({Catalog}, {NoFile}, {<<>>}, {FALSE}, {TRUE})
    /\ call_arg \in WindowRecords
    /\ call_ret = <<>>

ExtractWindowId ==
    /\ call_ret = <<>>
    /\ call_ret' = <<_extract_window_id(call_arg)>>
    /\ UNCHANGED call_arg
    /\ DockSame

NextExtract == ExtractWindowId

SpecExtract == InitExtract /\ [][NextExtract]_vars

----------------------------------------------------------------------------
\* Reconciliation passes over pinned lists and window lists.

PinnedRecords == {AppData(AppFoo), AppData(AppFoox)}

PinnedLists == UNION {[1..n -> PinnedRecords] : n \in 0..MaxPinned}

Windows == {WinFoo, WinFoox, WinFooBin, WinTitle}

\* The lists of at most MaxWindows different windows.
WindowLists ==
    UNION {{ws \in [1..n -> Windows] : \A i, j \in 1..n : ws[i] = ws[j] => i = j} :
           n \in 0..MaxWindows}

InitRecon ==
    /\ DockInit({Catalog}, {FileOf(p) : p \in PinnedLists}, WindowLists,
                {FALSE}, {FALSE})
    /\ NoCall

NextRecon == OnReady \/ WindowClosed \/ (\E w \in Windows : WindowOpened(w))

SpecRecon == InitRecon /\ [][NextRecon]_vars

----------------------------------------------------------------------------
\* Lookups: find_app_by_key, find_app and _find_instances_for_app, each
\* called once over catalogs, keys, records and window lists.

Catalogs == {<<>>, <<AppFoo>>, <<AppFoo, AppFoox>>, <<AppFoox, AppFoo>>}

LookupKeys ==
    {sFoo, sFoox, sBar, <<"F", "O", "O">>, <<"o", "o">>, <<"O", "x">>,
     <<"/", "f">>, <<"o", " ", "x">>, <<"x">>}

LookupRecords ==
    {AppData(AppFoo), AppData(AppFoox), Dict("name" :> sBar),
     Dict("name" :> <<"f", "o">>),
     Dict("name" :> <<"f", "o", "o", ".", "b", "i", "n">>),
     Dict(("executable" :> <<"/", "f", "o", "o">>) @@ ("name" :> sFoox)),
     Dict(("window_class" :> <<"o", "o">>) @@ ("display_name" :> sFoox))}

Call(fn, arg) == [fn |-> fn, arg |-> arg]

InitLookup ==
    /\ DockInit(Catalogs, {NoFile}, {<<>>}, {FALSE}, {TRUE})
    /\ NoCall

\* find_app_by_key(key)
LookupByKey ==
    /\ NoCall
    /\ \E key \in LookupKeys :
          /\ call_arg' = Call("find_app_by_key", key)
          /\ call_ret' = <<find_app_by_key(key)>>
    /\ DockSame

\* The same call once more.
LookupAgain ==
    /\ call_arg # <<>>
    /\ call_arg.fn = "find_app_by_key"
    /\ Len(call_ret) < 2
    /\ call_ret' = Append(call_ret, find_app_by_key(call_arg.arg))
    /\ UNCHANGED call_arg
    /\ DockSame

\* find_app(record)
Resolve ==
    /\ NoCall
    /\ \E record \in LookupRecords :
          /\ call_arg' = Call("find_app", record)
          /\ call_ret' = <<find_app(record)>>
    /\ DockSame

\* _find_instances_for_app(record, running_windows), the candidates in the
\* order the set gave them to the loop.
FindInstancesFor ==
    /\ NoCall
    /\ \E record \in LookupRecords, ws \in WindowLists :
          \E running_windows \in {_build_running_windows(ClientList(ws))} :
              \E p \in _get_possible_identifiers(record, find_app(record)) :
                  /\ call_arg' = Call("_find_instances_for_app",
                                      [possible_identifiers |-> p,
                                       running_windows |-> running_windows])
                  /\ call_ret' = <<FindInstances(p, running_windows)>>
    /\ DockSame

NextLookup == LookupByKey \/ LookupAgain \/ Resolve \/ FindInstancesFor

SpecLookup == InitLookup /\ [][NextLookup]_vars

Called(fn) == call_arg # <<>> /\ call_arg.fn = fn

Fields == {"name", "display_name", "window_class", "executable", "command_line"}

\* The descriptors of the catalog one of whose fields contains the key,
\* letter case set aside.
Containing(key) ==
    {i \in 1..Len(all_apps) :
        \E f \in Fields :
            /\ all_apps[i][f] # None
            /\ Contains(Lower(all_apps[i][f]), Lower(key))}

\* C18: a lookup of a key that the exact index does not hold returns the
\* first descriptor of the catalog one of whose five fields contains the key
\* as a substring, letter case set aside, and none if there is no such
\* descriptor; the same lookup made again returns the same.
FuzzyFirstInCatalog ==
    (Called("find_app_by_key") /\ Lower(call_arg.arg) \notin DOMAIN app_identifiers) =>
        \A n \in 1..Len(call_ret) :
            \E C \in {Containing(call_arg.arg)} :
                IF C = {} THEN call_ret[n] = Nothing
                ELSE call_ret[n] = Just(all_apps[CHOOSE i \in C : \A j \in C : i <= j])

FuzzyFirstInCatalogHappens ==
    /\ Called("find_app_by_key")
    /\ all_apps = <<AppFoox, AppFoo>>
    /\ call_arg.arg = <<"O", "x">>
    /\ call_ret = <<Just(AppFoox), Just(AppFoox)>>

\* The keys of a record that the exact index holds, as positions of the
\* order window_class, executable, command_line, name, display_name.
ExactKeys(d) ==
    {i \in 1..Len(IdentifierKeys) :
        /\ IdentifierKeys[i] \in DOMAIN d
        /\ Truthy(d[IdentifierKeys[i]])
        /\ Lower(d[IdentifierKeys[i]]) \in DOMAIN app_identifiers}

\* C19: resolving a record one of whose keys the exact index holds returns
\* the descriptor of the first such key: no substring match of an earlier
\* key comes before it.
ExactBeforeFuzzy ==
    (Called("find_app") /\ ExactKeys(call_arg.arg.d) # {}) =>
        \E E \in {ExactKeys(call_arg.arg.d)} :
            \E i \in {CHOOSE i \in E : \A j \in E : i <= j} :
                call_ret[1] =
                    Just(app_identifiers[Lower(call_arg.arg.d[IdentifierKeys[i]])])

\* One candidate matches the group map: by its key, by its normal form, or,
\* three characters long at least, within a key.
Matches(identifier, running_windows) ==
    \/ HasKey(running_windows, identifier)
    \/ HasKey(running_windows, _normalize_window_class(identifier))
    \/ /\ Len(identifier) >= 3
       /\ \E i \in 1..Len(running_windows) :
             Contains(running_windows[i].key, identifier)

\* key is a key the candidate may be matched with.
MatchedWith(identifier, running_windows, key) ==
    IF HasKey(running_windows, identifier) THEN key = identifier
    ELSE IF HasKey(running_windows, _normalize_window_class(identifier))
    THEN key = _normalize_window_class(identifier)
    ELSE /\ Len(identifier) >= 3
         /\ Contains(key, identifier)

\* C20: the call returns the group and the key of the first candidate that
\* matches, the key being the candidate, else its normal form, else, for a
\* candidate of three characters at least, a key that contains it; and it
\* returns the empty list and no key exactly when no candidate matches.
FirstMatchingCandidate ==
    Called("_find_instances_for_app") =>
        \E p \in {call_arg.arg.possible_identifiers},
           rw \in {call_arg.arg.running_windows}, ret \in {call_ret[1]} :
            \E M \in {{i \in 1..Len(p) : Matches(p[i], rw)}} :
                /\ (ret.instances = <<>> /\ ret.matched_class = Nothing) <=> M = {}
                /\ M # {} =>
                      /\ ret.matched_class # Nothing
                      /\ HasKey(rw, ret.matched_class[1])
                      /\ ret.instances = Get(rw, ret.matched_class[1])
                      /\ MatchedWith(p[CHOOSE i \in M : \A j \in M : i <= j], rw,
                                     ret.matched_class[1])

\* A candidate of two letters within a key, and no match; a candidate of
\* three letters within a key, and a match.
FirstMatchingCandidateHappens ==
    /\ Called("_find_instances_for_app")
    /\ \/ /\ call_arg.arg.possible_identifiers = << <<"f", "o">> >>
          /\ HasKey(call_arg.arg.running_windows, sFoo)
          /\ call_ret[1].matched_class = Nothing
       \/ /\ call_arg.arg.possible_identifiers = <<sFoo>>
          /\ ~HasKey(call_arg.arg.running_windows, sFoo)
          /\ call_ret[1].matched_class = Just(sFoox)

----------------------------------------------------------------------------
\* DockConfig: the pinned list assigned and saved, and the file read back.

Records == PinnedRecords \cup {Dict("name" :> <<"b", "a", "r">>)}

RecordLists == UNION {[1..n -> Records] : n \in 0..MaxRecords}

InitStore == DockInit({Catalog}, {NoFile}, {<<>>}, {FALSE}, {TRUE}) /\ NoCall

StoreSame ==
    UNCHANGED <<clients, data_always_show, all_apps, integrated_mode, conn_ready,
                pinned, children, always_show, saved_always_show, hide_id,
                drag_in_progress, is_mouse_over_dock_area, prevent_occlusion,
                forced_occlusion, reveal_child, loopVars, histVars, sideVars>>

\* dock_config.pinned_apps = value; dock_config.save()
\* call_arg is Just(value) once value has been written.
SetAndSave ==
    /\ \E value \in RecordLists, outcome \in SaveOutcomes :
          LET d == save([Cur EXCEPT !.config = SetPinnedApps(@, value)], outcome)
          IN  /\ config' = d.config
              /\ file' = d.file
              /\ call_arg' = IF outcome = "ok" THEN Just(value) ELSE Nothing
    /\ call_ret' = Nothing
    /\ StoreSame

\* dock_config.reload(); call_ret is Just(dock_config.pinned_apps).
Reload ==
    /\ ~_read_config(file).raised
    /\ config' = _read_config(file).config
    /\ call_ret' = Just(PinnedApps(config'))
    /\ UNCHANGED <<file, call_arg>>
    /\ StoreSame

NextStore == SetAndSave \/ Reload

SpecStore == InitStore /\ [][NextStore]_vars

----------------------------------------------------------------------------
\* The debounced streams: values scheduled, timers firing, widgets cleaned up.

Levels == {1, 2}

AllButSide ==
    UNCHANGED <<envVars, dockVars, loopVars, histVars, callVars, deskVars,
                toolbox, slot, peer>>

InitDebounce == DockInit({Catalog}, {NoFile}, {<<>>}, {FALSE}, {TRUE}) /\ NoCall

\* change-value, scroll-event, value-changed, or a device that moved to
\* another box
ScheduleUpdate ==
    /\ \E k \in Streams :
          /\ Cardinality(debounced[k].sources) <= MaxTimers
          /\ \E value \in Levels :
                debounced' = [debounced EXCEPT ![k] =
                    CASE k \in Controls -> _schedule_update(@, value)
                      [] k = "MixerSlider" -> on_value_changed(@)
                      [] k = "BluetoothDeviceSlot" -> _schedule_resort(@)]
    /\ UNCHANGED <<threads, ui, ui_idle>>
    /\ AllButSide

\* A timeout source of a stream fires.
TimerFires ==
    /\ \E k \in Streams :
          \E id \in debounced[k].sources, has_device \in BOOLEAN :
              debounced' = [debounced EXCEPT ![k] = TimerCallback(@, id, has_device)]
    /\ UNCHANGED <<threads, ui, ui_idle>>
    /\ AllButSide

\* destroy
Cleanup ==
    /\ \E k \in Streams : debounced' = [debounced EXCEPT ![k] = cleanup(@)]
    /\ UNCHANGED <<threads, ui, ui_idle>>
    /\ AllButSide

NextDebounce == ScheduleUpdate \/ TimerFires \/ Cleanup

SpecDebounce == InitDebounce /\ [][NextDebounce]_vars

\* Bursts of calls on one control, the other streams being idle; burst
\* keeps the last value scheduled, the values scheduled before it and how
\* the burst ended.
Alone(k) == \A j \in Streams \ {k} : debounced[j] = NoTimer

BurstSchedule ==
    /\ \E k \in Controls :
          /\ Alone(k)
          /\ Cardinality(debounced[k].sources) <= MaxTimers
          /\ \E value \in Levels :
                debounced' = [debounced EXCEPT ![k] =
                    [_schedule_update(@, value) EXCEPT !.burst =
                        [last |-> value,
                         earlier |-> IF @.last = 0 \/ @.ended # "" THEN {}
                                     ELSE @.earlier \cup {@.last},
                         ended |-> ""]]]
    /\ UNCHANGED <<threads, ui, ui_idle>>
    /\ AllButSide

BurstExpires ==
    /\ \E k \in Controls :
          /\ Alone(k)
          /\ \E id \in debounced[k].sources, has_device \in BOOLEAN :
                debounced' = [debounced EXCEPT ![k] =
                    [TimerCallback(@, id, has_device) EXCEPT !.burst.ended =
                        IF has_device THEN "applied" ELSE "no device"]]
    /\ UNCHANGED <<threads, ui, ui_idle>>
    /\ AllButSide

BurstCleanup ==
    /\ \E k \in Controls :
          /\ Alone(k)
          /\ debounced' = [debounced EXCEPT ![k] =
                 [cleanup(@) EXCEPT !.burst.ended = "cleanup"]]
    /\ UNCHANGED <<threads, ui, ui_idle>>
    /\ AllButSide

NextBurst == BurstSchedule \/ BurstExpires \/ BurstCleanup

SpecBurst == InitDebounce /\ [][NextBurst]_vars

\* C22: each debounced stream has at most one live timer, and its handle is
\* that timer's id when there is one and None when there is none.
OnePendingPerStream ==
    \A k \in Streams :
        /\ Cardinality(debounced[k].sources) <= 1
        /\ debounced[k].source_id # 0 => debounced[k].sources = {debounced[k].source_id}
        /\ debounced[k].source_id = 0 => debounced[k].sources = {}

\* A second value was scheduled while the timer of the first was pending.
OnePendingPerStreamHappens ==
    /\ debounced["BaseSlider"].source_id = 2
    /\ debounced["BaseSlider"].sources = {2}
    /\ debounced["BaseSlider"].pending = 2

----------------------------------------------------------------------------
\* Worker threads beside the main loop.

FileEvents ==
    {[event_type |-> "deleted", src_path |-> "a", dest_path |-> ""],
     [event_type |-> "deleted", src_path |-> "b", dest_path |-> ""],
     [event_type |-> "moved", src_path |-> "a", dest_path |-> "b"]}

World == [threads |-> threads, ui |-> ui, ui_idle |-> ui_idle]

WorldBecomes(w) == threads' = w.threads /\ ui' = w.ui /\ ui_idle' = w.ui_idle

NewThread(kind, event) ==
    SetToBag({[kind |-> kind, pc |-> "execute", val |-> "", event |-> event]})

InitWorkers == DockInit({Catalog}, {NoFile}, {<<>>}, {FALSE}, {TRUE}) /\ NoCall

\* StatusChecker._check on its timer, a favicon asked for, or a file event
\* the observer delivers: a thread begins.
ThreadNew ==
    /\ BagCardinality(threads) < MaxThreads
    /\ \/ threads' = threads (+) NewThread("check", NoEvent)
       \/ threads' = threads (+) NewThread("favicon", NoEvent)
       \/ \E event \in FileEvents : threads' = threads (+) NewThread("watch", event)
    /\ UNCHANGED <<debounced, ui, ui_idle>>
    /\ AllButSide

\* One step of a worker thread.
ThreadStep ==
    /\ Len(ui_idle) < MaxPosted
    /\ \E t \in BagToSet(threads) :
          CASE t.kind = "check" ->
                  \E status \in {"on", "off"} : WorldBecomes(_check_thread(World, t, status))
            [] t.kind = "favicon" ->
                  \E path \in {"ico", "none"} : WorldBecomes(do_download(World, t, path))
            [] t.kind = "watch" -> WorldBecomes(on_any_event(World, t))
    /\ UNCHANGED debounced
    /\ AllButSide

\* The main loop runs the first idle callback.
RunIdle ==
    /\ ui_idle # <<>>
    /\ ui_idle' = Tail(ui_idle)
    /\ \E call \in {Head(ui_idle)} :
          CASE call.fn = "_update_ui" -> ui' = _update_ui(ui, call.arg)
            [] call.fn = "_update_favicon" -> ui' = _update_favicon(ui, call.arg)
            [] call.fn = "_handle_file_event" ->
                  \E dest_exists \in BOOLEAN :
                      ui' = _handle_file_event(ui, call.event, dest_exists)
    /\ UNCHANGED <<debounced, threads>>
    /\ AllButSide

NextWorkers == ThreadNew \/ ThreadStep \/ RunIdle

SpecWorkers == InitWorkers /\ [][NextWorkers]_vars

----------------------------------------------------------------------------
\* DockConfig: save() and what it reports.

InitSave == DockInit({Catalog}, {NoFile}, {<<>>}, {FALSE}, {TRUE}) /\ NoCall

\* dock_config.pinned_apps = value
Assign ==
    /\ \E value \in RecordLists : config' = SetPinnedApps(config, value)
    /\ call_arg' = Nothing
    /\ call_ret' = Nothing
    /\ UNCHANGED file
    /\ StoreSame

\* dock_config.save(); call_arg is how open() and json.dump() ended,
\* call_ret what save() returned, with the configuration and the file
\* it found.
Save ==
    /\ \E outcome \in SaveOutcomes :
          /\ \E d \in {save(Cur, outcome)} : config' = d.config /\ file' = d.file
          /\ call_arg' = Just(outcome)
          /\ call_ret' = Just([returned |-> save_returns(outcome),
                               config |-> config, file |-> file])
    /\ StoreSame

NextSave == Assign \/ Save

SpecSave == InitSave /\ [][NextSave]_vars

\* C14: save() returns True exactly when the whole document was written,
\* and False when opening or writing failed, the file then holding what it
\* held or nothing; the configuration in memory is what it was.
SaveReports ==
    call_ret # Nothing =>
        /\ call_ret[1].returned = (call_arg[1] = "ok")
        /\ call_ret[1].returned => file = json_dump(config)
        /\ ~call_ret[1].returned => file \in {call_ret[1].file, <<>>}
        /\ config = call_ret[1].config

SaveReportsHappens ==
    /\ call_arg = Just("write_failed")
    /\ call_ret # Nothing
    /\ PinnedApps(config) # <<>>
    /\ file # json_dump(config)

----------------------------------------------------------------------------
\* DockConfig: dock.json as somebody else left it, read by reload().

\* The elements of a pinned_apps list on disk: legacy strings of a known
\* and of an unknown application, and records.
Items == {Str(sFoo), Str(sFoox), Str(<<"b", "a", "r">>),
          Dict("name" :> <<"b", "a", "r">>), AppData(AppFoo)}

ItemLists == UNION {[1..n -> Items] : n \in 0..MaxItems}

\* An empty file, a text cut short, and a document that is a list.
OddFiles == {<<>>, <<Tok("{")>>, DumpList(<<>>), DumpList(<<AppData(AppFoo)>>)}

LoadFiles == {NoFile, json_dump(EmptyDict)} \cup OddFiles
             \cup {FileOf(l) : l \in ItemLists}

InitLoad == DockInit({Catalog}, {NoFile}, {<<>>}, {FALSE}, {TRUE}) /\ NoCall

\* The file is replaced once; call_arg is Just(the new content).
ExternalEdit ==
    /\ call_arg = Nothing
    /\ file' \in LoadFiles
    /\ call_arg' = Just(file')
    /\ UNCHANGED <<config, call_ret>>
    /\ StoreSame

\* dock_config.reload(), once, the exception it may raise caught;
\* call_ret is Just([raised, pinned_apps]).
Load ==
    /\ call_arg # Nothing /\ call_ret = Nothing
    /\ \E r \in {_read_config(file)} :
           /\ config' = IF r.raised THEN config ELSE r.config
           /\ call_ret' = Just([raised |-> r.raised,
                                pinned_apps |-> IF r.raised THEN <<>>
                                                ELSE PinnedApps(config')])
    /\ UNCHANGED <<file, call_arg>>
    /\ StoreSame

NextLoad == ExternalEdit \/ Load

SpecLoad == InitLoad /\ [][NextLoad]_vars


----------------------------------------------------------------------------
\* The pinned list under drops, unpins, saves that fail and polls.

InitPins ==
    /\ DockInit({Catalog}, {NoFile, FileOf(<<AppData(AppFoo)>>)},
                {<<>>, <<WinBar>>, <<WinFoox>>}, {FALSE}, {TRUE})
    /\ NoCall

NextPins ==
    \/ DragBegin \/ DragDataReceived \/ DragEnd \/ ProcessDragEnd
    \/ IdleUpdateDock \/ ConfigPoll \/ QueryFails

SpecPins == InitPins /\ [][NextPins]_vars

\* Drops among the buttons of two running applications, with one pinned
\* application and with none.
InitDrop ==
    DockInit({Catalog}, {NoFile, FileOf(<<AppData(AppFoo)>>)},
             {<<WinBar, WinFoox>>}, {FALSE}, {TRUE}) /\ NoCall

NextDrop ==
    DragBegin \/ DragDataReceived \/ DragEnd \/ ProcessDragEnd \/ IdleUpdateDock

SpecDrop == InitDrop /\ [][NextDrop]_vars

\* Clicks on the buttons of a dock whose applications have no window, one
\* window or two.
WinFooY    == Window(sFoo, sFoo, <<"y">>)
WinFooBinY == Window(<<"F", "o", "o", ".", "b", "i", "n">>, <<>>, <<"y">>)

InitActivate ==
    DockInit({Catalog}, {NoFile, FileOf(<<AppData(AppFoo)>>)},
             {<<>>, <<WinBar>>, <<WinBar, WinFoox>>, <<WinFoo, WinFooY>>,
              <<WinFooBin, WinFooBinY>>},
             {FALSE}, {TRUE}) /\ NoCall

AllButDesk ==
    UNCHANGED <<envVars, dockVars, loopVars, histVars, callVars,
                debounced, threads, ui, ui_idle, toolbox, slot, peer>>

\* clicked on the button number i; the window the command names gets the
\* focus.
Clicked ==
    /\ \E i \in 1..Len(children) :
          /\ IsButton(i)
          /\ activated.entry = i => Len(activated.cmds) < MaxActivations
          /\ \E c \in {handle_app(children[i].app_identifier, children[i].instances,
                                  children[i].desktop_app, focused)} :
                /\ activated' = [entry |-> i,
                                 cmds |-> IF activated.entry = i
                                          THEN Append(activated.cmds, c) ELSE <<c>>]
                /\ focused' = IF c.cmd = "focuswindow" THEN c.address ELSE focused
    /\ AllButDesk

\* The user gives the focus to another window, or to none.
ActiveWindowChanged ==
    /\ \E address \in 0..Len(clients) : address # focused /\ focused' = address
    /\ activated' = NoActivation
    /\ AllButDesk

NextActivate == Clicked \/ ActiveWindowChanged

SpecActivate == InitActivate /\ [][NextActivate]_vars

\* The identifier index over catalogs whose descriptors share keys.

\* A descriptor that registers "bar", "foo" and "foox".
AppBar ==
    [name |-> sBar, display_name |-> None, window_class |-> <<"F", "o", "o">>,
     executable |-> <<"/", "x", "/", "f", "o", "o", "x">>, command_line |-> None]

Descriptors == {AppFoo, AppFoox, AppBar}

IndexCatalogs ==
    UNION {{c \in [1..n -> Descriptors] : \A i, j \in 1..n : c[i] = c[j] => i = j} :
           n \in 0..MaxApps}

IndexKeys == {sFoo, sFoox, sBar, <<"x">>, <<"o", "o">>, <<"f", "o", "o", " ", "x">>}

InitIndex ==
    /\ DockInit(IndexCatalogs, {NoFile}, {<<>>}, {FALSE}, {TRUE})
    /\ NoCall

IndexLookup ==
    /\ NoCall
    /\ \E key \in IndexKeys :
          /\ call_arg' = Call("find_app_by_key", key)
          /\ call_ret' = <<find_app_by_key(key)>>
    /\ DockSame

NextIndex == IndexLookup

SpecIndex == InitIndex /\ [][NextIndex]_vars

\* A bluetooth slot under the changes of its device.
InitSlot == DockInit({Catalog}, {NoFile}, {<<>>}, {FALSE}, {TRUE}) /\ NoCall

SlotOnly ==
    UNCHANGED <<envVars, dockVars, loopVars, histVars, callVars,
                threads, ui, ui_idle, deskVars, toolbox, peer>>

\* One property of the device changes and "changed" is handled.
DeviceChanged ==
    /\ Cardinality(debounced["BluetoothDeviceSlot"].sources) <= MaxTimers
    /\ \E property \in {"paired", "connected", "connecting"} :
          \E s \in {on_changed([slot EXCEPT !.device[property] = ~@])} :
              /\ slot' = s
              /\ debounced' = IF s.resort
                              THEN [debounced EXCEPT !["BluetoothDeviceSlot"] =
                                       _schedule_resort(@)]
                              ELSE debounced
    /\ SlotOnly

\* The timer of the resort fires.
ResortFires ==
    /\ \E id \in debounced["BluetoothDeviceSlot"].sources :
          debounced' = [debounced EXCEPT !["BluetoothDeviceSlot"] =
                           TimerCallback(@, id, TRUE)]
    /\ UNCHANGED slot
    /\ SlotOnly

NextSlot == DeviceChanged \/ ResortFires

SpecSlot == InitSlot /\ [][NextSlot]_vars

\* The Toolbox and its status checkers.
InitCheckers == DockInit({Catalog}, {NoFile}, {<<>>}, {FALSE}, {TRUE}) /\ NoCall

ToolboxOnly ==
    UNCHANGED <<envVars, dockVars, loopVars, histVars, callVars,
                debounced, ui, ui_idle, deskVars, slot, peer>>

\* Toolbox._start_status_checkers, from Toolbox.__init__
StartCheckers ==
    /\ toolbox.phase = "new"
    /\ toolbox' = [phase |-> "running",
                   checker |-> [k \in Checkers |-> start(toolbox.checker[k])]]
    /\ UNCHANGED threads
    /\ ToolboxOnly

\* A source of a checker fires: _check begins a thread and returns True.
CheckTimer ==
    /\ \E k \in Checkers : toolbox.checker[k].sources # {}
    /\ BagCardinality(threads) < MaxThreads
    /\ threads' = threads (+) NewThread("check", NoEvent)
    /\ UNCHANGED toolbox
    /\ ToolboxOnly

\* Toolbox._gamemode: the game mode button
ToggleGamemode ==
    /\ toolbox.phase = "running"
    /\ BagCardinality(threads) < MaxThreads
    /\ threads' = threads (+) NewThread("check", NoEvent)
    /\ UNCHANGED toolbox
    /\ ToolboxOnly

\* Toolbox._keyboard: the keyboard button
ToggleKeyboard ==
    /\ toolbox.phase = "running"
    /\ Cardinality(toolbox.checker["keyboard_checker"].sources) <= MaxTimers
    /\ toolbox' = [toolbox EXCEPT !.checker["keyboard_checker"] = _keyboard(@)]
    /\ UNCHANGED threads
    /\ ToolboxOnly

\* Toolbox.destroy
DestroyToolbox ==
    /\ toolbox.phase = "running"
    /\ toolbox' = [phase |-> "destroyed",
                   checker |-> [k \in Checkers |-> stop(toolbox.checker[k])]]
    /\ UNCHANGED threads
    /\ ToolboxOnly

NextCheckers ==
    \/ StartCheckers \/ CheckTimer \/ ToggleGamemode \/ ToggleKeyboard
    \/ DestroyToolbox \/ ThreadStep \/ RunIdle

SpecCheckers == InitCheckers /\ [][NextCheckers]_vars

\* The sources that call check_occlusion_state again and again.

\* Dock.update_visibility(visible), for the dock of Dock._instances:
\* check_occlusion_state returns True in a dock that is not integrated, so
\* the idle source that idle_add installs is not removed after its first
\* run and stays among the recurring ones.
update_visibility(d, visible) ==
    IF visible THEN d
    ELSE IF d.reveal_child THEN SetRevealChild(d, FALSE) ELSE d

UpdateVisibility ==
    /\ ~integrated_mode
    /\ \E visible \in BOOLEAN :
          /\ visible => occlusion_sources < MaxSources
          /\ occlusion_sources' = IF visible THEN occlusion_sources + 1
                                  ELSE occlusion_sources
          /\ Becomes(update_visibility(Cur, visible))
    /\ Did("update_visibility") /\ Fixed /\ EnvSame
    /\ UNCHANGED <<conn_ready, drag_source>>

InitSources ==
    DockInit({Catalog}, {FileOf(<<AppData(AppFoo)>>)}, {<<>>}, {FALSE}, BOOLEAN)
    /\ NoCall

NextSources ==
    \/ OnReady \/ UpdateVisibility \/ Tick
    \/ HoverEnter \/ HoverLeave \/ HideTimer \/ SettingsChanged \/ ConfigPoll

SpecSources == InitSources /\ [][NextSources]_vars

\* Two docks, one per monitor, over one dock.json, every save succeeding.
\* This dock unpins by drags that end outside it, handler by handler; the
\* other dock reorders, a drop being taken from drag-begin to the end of
\* process_drag_end in one step; both poll.
InitTwo ==
    DockInit({Catalog}, {FileOf(<<AppData(AppFoo), AppData(AppFoox)>>)},
             {<<>>}, {FALSE}, {TRUE}) /\ NoCall

\* The other dock as it runs a handler, and as the handler leaves it.
Peer == [peer EXCEPT !.file = file]

PeerBecomes(d) == peer' = [d EXCEPT !.file = NoFile] /\ file' = d.file

PeerOnly ==
    UNCHANGED <<clients, data_always_show, dockVars, loopVars, histVars, callVars,
                debounced, threads, ui, ui_idle, deskVars, toolbox, slot>>

\* The update_dock a drop across the separator queued, run at once.
PeerIdle(d) ==
    IF d.idle = <<>> THEN {d} ELSE update_dock([d EXCEPT !.idle = <<>>], clients)

\* A button of the other dock is dropped on another of its buttons.
PeerDrop ==
    /\ \E source_index, target_index \in 1..Len(peer.children),
          outcome \in {"ok"} :
          /\ peer.children[source_index].name = "dock-app-button"
          /\ peer.children[target_index].name = "dock-app-button"
          /\ \E d1 \in on_drag_data_received(on_drag_begin(Peer), source_index,
                                             target_index, outcome) :
                \E d2 \in PeerIdle(d1) :
                    \E d3 \in process_drag_end(d2, peer.children[source_index],
                                                FALSE, outcome) :
                        PeerBecomes(d3)
    /\ PeerOnly

\* The 2 s poll of the other dock.
PeerPoll ==
    /\ \E d \in check_config_change(Peer) : PeerBecomes(d)
    /\ PeerOnly

NextTwo ==
    \/ DragBegin
    \/ DragEnd
    \/ ProcessDragEnd /\ file' = json_dump(config')
    \/ ConfigPoll
    \/ PeerDrop
    \/ PeerPoll

SpecTwo == InitTwo /\ [][NextTwo]_vars

\* The runs of SpecPins in which dock.json keeps its content: every save
\* fails at open(), or writes what the file holds.
NextKept ==
    \/ DragBegin /\ file' = file
    \/ DragDataReceived /\ file' = file
    \/ DragEnd /\ file' = file
    \/ ProcessDragEnd /\ file' = file
    \/ IdleUpdateDock /\ file' = file
    \/ ConfigPoll /\ file' = file
    \/ QueryFails /\ file' = file

SpecKept == InitPins /\ [][NextKept]_vars

----------------------------------------------------------------------------
\* The reconciliation pass.

\* view.children is what the last update_dock left.
Reconciled == last = "update_dock"

\* C1: in the children of one pass, two buttons of different pinned records
\* are never given the same live group.
PinnedGroupsDistinct ==
    Reconciled =>
        \A i, j \in 1..Len(pinned) :
            (i # j /\ pinned[i] # pinned[j] /\ children[i].matched_class # Nothing)
                => children[i].matched_class # children[j].matched_class

\* The keys of the live groups that a pinned button of children holds, and
\* their normal forms.
PinnedKeys ==
    UNION {{children[i].matched_class[1],
            _normalize_window_class(children[i].matched_class[1])} :
           i \in {i \in 1..Len(pinned) : children[i].matched_class # Nothing
                                         /\ children[i].matched_class[1] # <<>>}}

\* The keys of the live groups in the order of the grouping, those of
\* PinnedKeys left out.
UnpinnedKeys ==
    LET rw == _build_running_windows(clients)
    IN  SelectSeq([i \in 1..Len(rw) |-> rw[i].key], LAMBDA k : k \notin PinnedKeys)

\* C2: the children of a pass are one button for each pinned record, in the
\* order of the pinned list; then one separator, if and only if there are
\* both pinned and unpinned buttons; then one button for each unpinned live
\* group, in the order of the grouping.
ChildrenLayout ==
    Reconciled =>
        LET n == Len(pinned)
            m == Len(UnpinnedKeys)
            s == IF n > 0 /\ m > 0 THEN 1 ELSE 0
        IN  /\ Len(children) = n + s + m
            /\ \A i \in 1..n :
                  /\ children[i].name = "dock-app-button"
                  /\ children[i].app_identifier = pinned[i]
            /\ s = 1 => children[n + 1].name = "dock-separator"
            /\ \A i \in 1..m :
                  /\ children[n + s + i].name = "dock-app-button"
                  /\ children[n + s + i].matched_class = Just(UnpinnedKeys[i])

\* A pass left a pinned button, the separator and two unpinned buttons.
ChildrenLayoutHappens ==
    /\ Reconciled /\ Len(pinned) = 1 /\ Len(children) = 4
    /\ children[2].name = "dock-separator"
    /\ children[3].matched_class # children[4].matched_class

\* C3: in the children of one pass no window address is in the instances of
\* two buttons.
AddressInOneButton ==
    Reconciled =>
        \A i, j \in 1..Len(children) :
            i # j => \A a \in 1..Len(children[i].instances),
                        b \in 1..Len(children[j].instances) :
                        children[i].instances[a].address
                            # children[j].instances[b].address

----------------------------------------------------------------------------
\* Pure functions.

\* C4: _normalize_window_class returns, for what it returned, the same.
NormalizeIdempotent == Len(call_ret) = 2 => call_ret[2] = call_ret[1]

\* C10: the pinned list read back after a successful save is the list that
\* was assigned, in the same order.
SaveLoadRoundTrip ==
    (call_arg # Nothing /\ call_ret # Nothing) => call_ret[1] = call_arg[1]

\* Two different records, one with None values, were saved and read back.
SaveLoadRoundTripHappens ==
    /\ call_arg = Just(<<AppData(AppFoox), AppData(AppFoo)>>)
    /\ call_ret # Nothing

\* The legacy lists: every element a string.
LegacyLists == {l \in ItemLists : \A i \in 1..Len(l) : l[i].k = "str"}

\* The descriptors of the catalog named s.
Named(s) == {i \in 1..Len(all_apps) : all_apps[i].name = s}

\* What a legacy string becomes.
Migrated(s) ==
    IF Named(s) # {} THEN AppData(all_apps[CHOOSE i \in Named(s) : TRUE])
    ELSE Dict("name" :> s)

\* C11: the load of a list of strings gives a list of the same length and
\* order, each string of a catalog application replaced by the full record
\* of the application and each other string s by {name: s}.
LegacyMigrated ==
    \A l \in LegacyLists :
        (call_ret # Nothing /\ file = FileOf(l)) =>
            /\ ~call_ret[1].raised
            /\ call_ret[1].pinned_apps = [i \in 1..Len(l) |-> Migrated(l[i].s)]

\* A known, an unknown and again a known string were loaded.
LegacyMigratedHappens ==
    /\ call_ret # Nothing
    /\ file = FileOf(<<Str(sFoox), Str(<<"b", "a", "r">>), Str(sFoo)>>)

\* The file is missing or is not JSON.
Malformed == file = NoFile \/ ~json_load(file).ok

\* C13: a load never raises; it yields the empty list for a missing or
\* malformed file, and a list for every other file.
LoadNeverRaises ==
    call_ret # Nothing =>
        /\ ~call_ret[1].raised
        /\ Malformed => call_ret[1].pinned_apps = <<>>

\* C12: the pinned_apps list in the file never holds a bare string.
NoLegacyWritten ==
    (file # NoFile /\ json_load(file).ok) =>
        \A i \in 1..Len(PinnedApps(json_load(file).value)) :
            PinnedApps(json_load(file).value)[i].k # "str"

\* The pinned list that a reload would bring, if it brings one.
OnDisk == _read_config(file)

\* C15: a pinned list of records that differs from the one on disk, as a
\* failed save leaves it, is kept by a poll of the configuration.
PollKeepsUnsaved ==
    [][(/\ last' = "check_config_change"
        /\ \A i \in 1..Len(pinned) : pinned[i].k = "dict"
        /\ ~OnDisk.raised
        /\ PinnedApps(OnDisk.config) # pinned) => pinned' = pinned
      ]_vars

\* C16: after a poll that finds the file missing or unreadable, every record
\* that was pinned still has its button.
PinnedSurvive ==
    [][(last' = "check_config_change" /\ Malformed) =>
           \A i \in 1..Len(pinned) :
               \E j \in 1..Len(children') :
                   /\ children'[j].name = "dock-app-button"
                   /\ children'[j].app_identifier = pinned[i]
      ]_vars

\* C17: a pass whose query of the clients failed did not raise, and left
\* the pinned buttons and nothing else, each with no instance.
FailedQueryPass ==
    last \in {"update_dock raised", "update_dock without clients"} =>
        /\ last # "update_dock raised"
        /\ Len(children) = Len(pinned)
        /\ \A i \in 1..Len(pinned) :
              /\ children[i].app_identifier = pinned[i]
              /\ children[i].instances = <<>>

\* A step of the configuration poll that could read the file.
Polled == last' = "check_config_change" /\ ~OnDisk.raised

----------------------------------------------------------------------------
\* The occlusion machine.

\* What check_occlusion_state decides from the flags.
TickRule ==
    IF forced_occlusion THEN is_mouse_over_dock_area
    ELSE IF is_mouse_over_dock_area \/ drag_in_progress \/ prevent_occlusion THEN TRUE
    ELSE always_show

\* C6: when restore_from_occlusion runs right after force_occlusion,
\* always_show is what it was before the force, the dock is no longer
\* forced and the revealer is what check_occlusion_state decides.
ForceThenRestore ==
    (last = "restore_from_occlusion" /\ pre_force # Nothing) =>
        /\ always_show = pre_force[1]
        /\ ~forced_occlusion
        /\ ~integrated_mode => reveal_child = TickRule

\* A dock that always shows was forced, hidden, and is shown again.
ForceThenRestoreHappens ==
    /\ last = "restore_from_occlusion" /\ pre_force = Just(TRUE)
    /\ ~is_mouse_over_dock_area /\ ~drag_in_progress /\ ~prevent_occlusion
    /\ always_show /\ reveal_child

\* C8: after a tick of the occlusion check the revealer is: hovered, when
\* the dock is forced; otherwise shown when hovered, dragging or prevented;
\* otherwise always_show.
TickDecides == last = "check_occlusion_state" => reveal_child = TickRule

\* A tick found the dock hidden, with prevent set and nothing else: shown.
TickDecidesHappens ==
    /\ last = "check_occlusion_state"
    /\ ~forced_occlusion /\ ~is_mouse_over_dock_area /\ ~drag_in_progress
    /\ prevent_occlusion /\ ~always_show /\ reveal_child

\* C9: at most one hide timer is pending, and hide_id is its id exactly
\* when one is pending.
OneHideTimer ==
    /\ Cardinality(timers) <= 1
    /\ hide_id # 0 <=> timers # {}
    /\ hide_id # 0 => timers = {hide_id}

\* A pending timer was replaced by a second one, which is the only one.
OneHideTimerHappens == hide_id = 2 /\ timers = {2}

\* C5: with always_show and forced occlusion off and no drag, a shown dock
\* whose hide timer is pending stays shown by every event that leaves the
\* timer pending (a tick, a reconciliation, a workspace change); and once
\* the timer is gone the next tick leaves the dock hidden.
HiddenByTimerOnly ==
    [][/\ (/\ hide_id # 0 /\ hide_id \in timers
            /\ hide_id' = hide_id /\ timers' = timers
            /\ ~always_show /\ ~always_show'
            /\ ~forced_occlusion /\ ~forced_occlusion'
            /\ drag_source = Nothing /\ drag_source' = Nothing
            /\ ~drag_in_progress /\ ~drag_in_progress'
            /\ reveal_child) => reveal_child'
       /\ (/\ last' = "check_occlusion_state"
            /\ hide_id = 0 /\ ~is_mouse_over_dock_area
            /\ ~always_show /\ ~forced_occlusion
            /\ drag_source = Nothing /\ ~drag_in_progress) => ~reveal_child'
      ]_vars

\* A drag is under way: drag-begin has run and drag-end has not.
Dragging == drag_source # Nothing

\* C7: from drag-begin to drag-end the drag flag is set and no event takes
\* the dock from shown to hidden.
DragSuppressesHide ==
    [][/\ Dragging' => drag_in_progress'
       /\ (Dragging /\ Dragging' /\ reveal_child) => reveal_child'
      ]_vars

\* C24: an event that changes the hover flag or the drag flag removes the
\* hide timer that was pending.
FlagEventCancelsHide ==
    [][(/\ \/ is_mouse_over_dock_area' # is_mouse_over_dock_area
           \/ drag_in_progress' # drag_in_progress
        /\ hide_id # 0 /\ hide_id \in timers) => hide_id \notin timers'
      ]_vars

\* No flag keeps the dock shown when the hide timer expires.
NoFlag == ~is_mouse_over_dock_area /\ ~drag_in_progress /\ ~prevent_occlusion

\* C25 as stated: when the hide timer expires with none of the flags set,
\* the dock is hidden.
ExpiryHides ==
    [][(last' = "hide_dock_if_not_hovered" /\ NoFlag) => ~reveal_child']_vars

\* C25: when the hide timer expires, the dock is hidden if none of the
\* flags is set at that moment and always_show is off, and the revealer is
\* left as it is otherwise.
ExpiryReadsFlags ==
    [][last' = "hide_dock_if_not_hovered" =>
           IF NoFlag /\ ~always_show THEN ~reveal_child'
           ELSE reveal_child' = reveal_child
      ]_vars

\* The timer expired during a drag that began after the pointer had left:
\* the dock is still shown.
ExpiryReadsFlagsHappens ==
    /\ last = "hide_dock_if_not_hovered"
    /\ ~is_mouse_over_dock_area /\ drag_in_progress /\ ~always_show
    /\ reveal_child

\* C26: a dock that is forced and shown has the pointer over it.
ForcedShownIsHovered ==
    (forced_occlusion /\ reveal_child) => is_mouse_over_dock_area

\* C27: a restore after two forces or more, with nothing between them, sets
\* always_show to what it was before the first of them.
ForceTwiceThenRestore ==
    (/\ last = "restore_from_occlusion"
     /\ first_force # Nothing
     /\ first_force[1].again) => always_show = first_force[1].always_show

\* The application a pinned record or a bare string refers to.
AppOf(app_id) == IF app_id.k = "dict" THEN GetName(app_id.d) ELSE app_id.s

\* C28: a drop that does not cross the separator (it asks for no
\* reconciliation) and is saved leaves a pinned list of the same length
\* that refers to the same applications.
DropKeepsPinnedSet ==
    [][(/\ last' = "on_drag_data_received"
        /\ idle' = idle
        /\ file' = json_dump(config')) =>
           /\ Len(pinned') = Len(pinned)
           /\ {AppOf(pinned'[i]) : i \in 1..Len(pinned')}
                 = {AppOf(pinned[i]) : i \in 1..Len(pinned)}
      ]_vars

\* C29: the drag-end of a button that is pinned hands the button to
\* process_drag_end, the callback that unpins it when the pointer is outside
\* the dock, whatever was processed since the drag began.
DragOutUnpins ==
    [][(/\ drag_source # Nothing
        /\ drag_source' = Nothing
        /\ _find_pinned_app_index(Cur, drag_source[1].app_identifier) >= 1) =>
           /\ idle' # <<>>
           /\ idle'[Len(idle')] = IdleCall("process_drag_end", drag_source[1])
      ]_vars

\* C30: the clicks on a button with no instance launch and focus nothing;
\* as many successive clicks on a button as it has different windows, the
\* focus following each click, focus every one of its windows.
ActivationsFocusAll ==
    activated.entry # 0 =>
        LET instances == children[activated.entry].instances
            windows == {instances[i].address : i \in 1..Len(instances)}
            cmds == activated.cmds
        IN  /\ instances = <<>> =>
                \A k \in 1..Len(cmds) : cmds[k].cmd = "launch"
            /\ instances # <<>> =>
                \A k \in 1..Len(cmds) : cmds[k].cmd = "focuswindow"
            /\ (instances # <<>> /\ Len(cmds) = Cardinality(windows)) =>
                {cmds[k].address : k \in 1..Len(cmds)} = windows

\* C31: _build_running_windows puts each live window once into the group
\* of its raw identifier and once into the group of its normalized
\* identifier: no group holds an address twice, and a group holds the
\* windows whose raw or normalized identifier is its key.
GroupsHoldEachWindowOnce ==
    \A g \in {_build_running_windows(clients)} :
        \A n \in 1..Len(g) :
            /\ \A i, j \in 1..Len(g[n].val) :
                   g[n].val[i].address = g[n].val[j].address => i = j
            /\ {g[n].val[i].address : i \in 1..Len(g[n].val)}
                 = {clients[i].address : i \in
                       {k \in 1..Len(clients) :
                           \/ _extract_window_id(clients[k]) = g[n].key
                           \/ _normalize_window_class(_extract_window_id(clients[k]))
                                 = g[n].key}}

\* The first string of a list that is not empty.
RECURSIVE FirstNonEmpty(_)
FirstNonEmpty(l) == IF Head(l) # <<>> THEN Head(l) ELSE FirstNonEmpty(Tail(l))

\* A segment counts when it is longer than one character.
Longer(segment) == IF Len(segment) > 1 THEN segment ELSE <<>>

\* C32 as stated: the third candidate is the first segment of the title as
\* split() returns it.
ExtractFirstSegment ==
    call_ret # <<>> =>
        call_ret[1] = FirstNonEmpty(<<Lower(call_arg.initialClass),
                                     Lower(call_arg.class),
                                     Longer(BeforeDash(Lower(call_arg.title))),
                                     Lower(call_arg.title),
                                     unknown_app>>)

\* C32: _extract_window_id returns the first non-empty of the lowercased
\* initialClass, the lowercased class, the first segment of the lowercased
\* title with the blanks around it removed when what is left is longer than
\* one character, the lowercased title, and "unknown-app"; the result is
\* never empty.
ExtractFirstNonEmpty ==
    call_ret # <<>> =>
        /\ call_ret[1] # <<>>
        /\ call_ret[1] =
              FirstNonEmpty(<<Lower(call_arg.initialClass),
                              Lower(call_arg.class),
                              Longer(Strip(BeforeDash(Lower(call_arg.title)))),
                              Lower(call_arg.title),
                              unknown_app>>)

ExtractFirstNonEmptyHappens ==
    /\ call_ret # <<>>
    /\ call_arg.initialClass = <<>> /\ call_arg.class = <<>>
    /\ call_arg.title = <<" ", "A", "A", " ", "-", " ">>
    /\ call_ret[1] = <<"a", "a">>

\* The descriptor registers the lowercase key: the key is its name, its
\* display name or its window class in lower case, the basename of its
\* executable, or the basename of the first token of its command line.
Registers(app, key) ==
    \/ Truthy(app.name) /\ key = Lower(app.name)
    \/ Truthy(app.display_name) /\ key = Lower(app.display_name)
    \/ Truthy(app.window_class) /\ key = Lower(app.window_class)
    \/ Truthy(app.executable) /\ key = Lower(LastSegment(app.executable))
    \/ Truthy(app.command_line)
          /\ key = Lower(LastSegment(FirstToken(app.command_line)))

Registering(key) == {i \in 1..Len(all_apps) : Registers(all_apps[i], key)}

\* C33: the lookup of a lowercase key that some descriptor registers
\* returns the last descriptor of the catalog that registers it, and a key
\* no descriptor registers is not in the index.
ExactLookupLast ==
    Called("find_app_by_key") =>
        \A regs \in {Registering(call_arg.arg)} :
            /\ regs # {} =>
                  call_ret = <<Just(all_apps[CHOOSE i \in regs : \A j \in regs : j <= i])>>
            /\ regs = {} => call_arg.arg \notin DOMAIN app_identifiers

ExactLookupLastHappens ==
    /\ Called("find_app_by_key")
    /\ call_arg.arg = sFoo
    /\ all_apps = <<AppFoo, AppBar>>
    /\ call_ret = <<Just(AppBar)>>

\* The timer of a burst of calls on the control k expires in this step.
Expires(k) ==
    /\ debounced[k].burst.ended = ""
    /\ debounced'[k].burst.ended \in {"applied", "no device"}

\* C34 as stated: the expiry after a burst applies the last value scheduled.
BurstAppliesLast ==
    [][\A k \in Controls :
          Expires(k) =>
             /\ debounced'[k].volume = debounced[k].burst.last
             /\ debounced'[k].pending = 0
             /\ debounced'[k].sources = {}
      ]_vars

\* C34: the expiry after a burst of calls on one control is the only
\* callback of the burst (no timer is left); it applies the last value
\* scheduled when the device is there and leaves the device as it was when
\* it is not; the pending value and the handle are cleared.
BurstCoalesces ==
    [][\A k \in Controls :
          Expires(k) =>
             /\ debounced'[k].burst.ended = "applied" =>
                    debounced'[k].volume = debounced[k].burst.last
             /\ debounced'[k].burst.ended = "no device" =>
                    debounced'[k].volume = debounced[k].volume
             /\ debounced'[k].pending = 0
             /\ debounced'[k].source_id = 0
             /\ debounced'[k].sources = {}
      ]_vars

BurstCoalescesHappens ==
    /\ debounced["BaseSlider"].burst = [last |-> 2, earlier |-> {1}, ended |-> "applied"]
    /\ debounced["BaseSlider"].volume = 2
    /\ debounced["BaseSlider"].pending = 0
    /\ debounced["BaseSlider"].sources = {}

\* C35: the group _find_instances_for_app gives a record is the same
\* whatever the order in which the loop is given the candidates.
MatchIgnoresCandidateOrder ==
    Called("_find_instances_for_app") =>
        \A p \in {call_arg.arg.possible_identifiers} :
            \A q \in [1..Len(p) -> {p[i] : i \in 1..Len(p)}] :
                {q[i] : i \in 1..Len(p)} = {p[i] : i \in 1..Len(p)} =>
                    FindInstances(q, call_arg.arg.running_windows) = call_ret[1]

\* The applications a pinned list refers to.
AppSet(l) == {AppOf(l[i]) : i \in 1..Len(l)}

\* C36: a reorder or an unpin on one dock, one that pins nothing on that
\* dock, brings back no application that the other dock unpinned and
\* saved: the list on disk refers to no application it did not refer to.
PeerKeepsUnpins ==
    [][(/\ peer' # peer
        /\ AppSet(peer'.pinned) \subseteq AppSet(peer.pinned)
        /\ ~_read_config(file).raised
        /\ ~_read_config(file').raised) =>
           AppSet(PinnedApps(_read_config(file').config))
              \subseteq AppSet(PinnedApps(_read_config(file).config))
      ]_vars

\* C37: a dock that is not integrated has at most one recurring source
\* that calls check_occlusion_state.
OneOcclusionSource == ~integrated_mode => occlusion_sources <= 1

\* C38: a status checker has at most one recurring source that calls its
\* _check, and none after the Toolbox was destroyed.
OneCheckTimer ==
    \A k \in Checkers :
        /\ Cardinality(toolbox.checker[k].sources) <= 1
        /\ toolbox.phase = "destroyed" => toolbox.checker[k].sources = {}

\* C39: after every handled change of the device, the connect button of
\* the slot shows "Connecting..." and is insensitive if the device is
\* connecting, and else shows "Disconnect" if it is connected and "Connect"
\* if it is not.
ButtonShowsDevice ==
    IF slot.device.connecting
    THEN slot.label = "Connecting..." /\ ~slot.sensitive
    ELSE slot.label = (IF slot.device.connected THEN "Disconnect" ELSE "Connect")

====
